---- MODULE Spec2Model ----
(***************************************************************************)
(* Layout optimisation pipeline of owen-lacey/sdokb (scripts/*.py).        *)
(*                                                                         *)
(* Lengths and coordinates are fixed-point integers in units of 0.001      *)
(* pixel: math.sqrt / math.hypot become the integer square root (rounded   *)
(* down), a float multiplier such as 0.02 becomes a multiplication and a   *)
(* division rounded toward zero.  One behaviour is one run of one stage    *)
(* function; `stage` says which one.                                       *)
(***************************************************************************)
EXTENDS Integers, Sequences, FiniteSets

(***************************************************************************)
(* Bounds of the model.  The loop limits of the scripts are scaled down so *)
(* that every stopping condition is reached.                               *)
(***************************************************************************)
\* largest number of actors given to a stage
MaxActors == 3
\* scripts/03-swap-optimization.py:34 sets 1000
STAGNATION_THRESHOLD == 2
\* scripts/03-swap-optimization.py:35 sets 50000
MAX_ITERATIONS == 3
\* spacing of the spiral the swap stage's input layout was drawn on
SwapSpacing == 4

\* largest max_iterations argument and the no_improve_limit argument given to
\* two_opt_local_search
MaxIterationsArg == 3
NoImproveLimitArg == 2
\* SPACING of scripts/optimize-layout.py:30 (80 px there)
SPACING == 20

\* scripts/03-swap-optimization.py:36
RANDOM_SEED == 42
\* 0.001 px, the epsilon of scripts/03-swap-optimization.py:168
SWAP_EPSILON == 1
\* 0.01 px, the epsilon of scripts/optimize-layout.py:315
TWO_OPT_EPSILON == 10

\* scripts/04-force-relaxation.py:32 sets 500
RELAX_MAX_ITERATIONS == 6
\* scripts/04-force-relaxation.py:40 sets 15
PATIENCE == 3
\* spacing of a spiral whose neighbouring slots are closer than MIN_DISTANCE
TightSpacing == 20000
\* the largest number of raw connection rows read
MaxConnections == 2
\* the largest spiral index whose position is computed on its own
MaxSlot == 12
\* slot indices passed to the spiral function go down to -MaxNegative
MaxNegative == 2
\* edge counts given to calculate_adaptive_iterations: 0, EdgeStep, ...,
\* MaxEdgeSteps * EdgeStep
EdgeStep == 417
MaxEdgeSteps == 21
\* 04-shortest-paths.py runs on graphs of up to BfsNodes actors and
\* BfsEdges edge rows
BfsNodes == 4
BfsEdges == 4
\* the star scenario: the stagnation threshold and the iteration cap of its
\* runs of run_swap_optimization
\* the delta evaluations are compared on graphs of up to DeltaEdges edges
DeltaEdges == 2
StarStagnation == 22
StarIterations == 50
\* distances of two slightly overlapping nodes: the improvement of a run started
\* on them drops below IMPROVEMENT_THRESHOLD after three iterations, after one
LongStallGap == 43200
ShortStallGap == 44100
\* a --max-step below the steps of overlapping nodes (0.1 px)
SmallMaxStep == 100

\* scripts/relax-layout.py:264, --weight-scale 0.35
WEIGHT_SCALE == 350

\* scripts/optimization_utils.py:34, 80 px
DEFAULT_SPACING == 80000
\* scripts/04-force-relaxation.py:33-39; the multipliers are in 1/1000
STEP_SIZE == 20
MAX_STEP == 5000
ATTRACTION_STRENGTH == 10
REPULSION_STRENGTH == 500
ANCHOR_STRENGTH == 20
MIN_DISTANCE == 60000
IMPROVEMENT_THRESHOLD == 2

\* scripts/optimize-layout.py:224-230, 266
ITERATIONS_PER_EDGE == 6
MIN_ITERATIONS == 5000
CAP_ITERATIONS == 50000
HIGH_QUALITY_FROM == 20000
GOOD_QUALITY_FROM == 10000
MIN_NO_IMPROVE_LIMIT == 500
\* 0.05, in 1/1000
NO_IMPROVE_FRACTION == 50

\* the value of a variable the stage does not have, or has not yet returned
Null == "none"
\* an integer argument left at its default None
NoArg == -1
\* the None that main of 04-shortest-paths.py stores for an unreachable node
NoDistance == -1
\* actor_i / actor_j before the first trial: an id no actor has
NoActor == MaxActors

(***************************************************************************)
(* Arithmetic helpers                                                      *)
(***************************************************************************)
\* F applied to the value of x, x being evaluated once
Once(x, F(_)) == CHOOSE r \in {F(y) : y \in {x}} : TRUE

RECURSIVE ISqrtIter(_, _, _)
ISqrtIter(v, lo, hi) ==
    IF lo >= hi THEN lo
    ELSE Once((lo + hi + 1) \div 2,
              LAMBDA mid : IF mid * mid <= v THEN ISqrtIter(v, mid, hi)
                                             ELSE ISqrtIter(v, lo, mid - 1))

\* the square roots of the small values, computed once
SmallRoots == [v \in 0 .. 64 * 64 |-> ISqrtIter(v, 0, 64)]

\* math.sqrt on a non-negative fixed-point value, rounded down
ISqrt(v) ==
    Once(v, LAMBDA w : IF w \in DOMAIN SmallRoots THEN SmallRoots[w]
                       ELSE ISqrtIter(w, 0, IF w < 46340 THEN w ELSE 46340))

\* a / b rounded toward zero (b > 0)
TDiv(a, b) == IF a >= 0 THEN a \div b ELSE -((-a) \div b)

Abs(a) == IF a >= 0 THEN a ELSE -a

\* sqrt(a*a + b*b), rounded down; large operands are scaled first so that the
\* squares stay within 32-bit integers
Root2(a, b) ==
    Once(((IF Abs(a) >= Abs(b) THEN Abs(a) ELSE Abs(b)) \div 32768) + 1,
         LAMBDA k : k * ISqrt((Abs(a) \div k) * (Abs(a) \div k)
                              + (Abs(b) \div k) * (Abs(b) \div k)))

\* a / b rounded to the nearest integer (b > 0)
RoundDiv(a, b) == TDiv(2 * Abs(a) + b, 2 * b) * (IF a >= 0 THEN 1 ELSE -1)

RECURSIVE SumOver(_, _)
\* sum of f[x] for x in S (f a function whose domain includes S)
SumOver(S, f) ==
    Once(S, LAMBDA T :
        IF T = {} THEN 0
        ELSE Once(CHOOSE y \in T : TRUE, LAMBDA x : f[x] + SumOver(T \ {x}, f)))

(***************************************************************************)
(* optimization_utils.py                                                   *)
(***************************************************************************)
\* cos and sin of index * GOLDEN_ANGLE (137.5077640500378 degrees), in 1/1000
CosMilli == <<1000, -737, 87, 608, -985, 844, -260, -461,
              939, -924, 424, 299, -865, 977, -575, -129>>
SinMilli == <<0, 675, -996, 794, -174, -537, 966, -887,
              343, 382, -906, 954, -501, -215, 818, -992>>

\* math.cos / math.sin of index * GOLDEN_ANGLE; the angle of a negative index
\* is the mirrored one: cos(-t) = cos(t), sin(-t) = -sin(t)
CosAt(index) == CosMilli[Abs(index) + 1]
SinAt(index) == IF index < 0 THEN -SinMilli[Abs(index) + 1]
                ELSE SinMilli[index + 1]

\* math.sqrt(index + 1) raises ValueError exactly on a negative argument;
\* nothing else in the function looks at the index
VogelRaises(index) == index + 1 < 0

\* faulty variant: the radius does not grow with the index
calculate_vogel_position_flat(index, spacing) ==
    LET radius == spacing
        x == TDiv(radius * CosAt(index), 1000)
        y == TDiv(radius * SinAt(index), 1000)
    IN  <<x, y>>

\* radius = spacing * sqrt(index + 1), the square root taken in 1/1000
calculate_vogel_position(index, spacing) ==
    LET radius == TDiv(spacing * ISqrt((index + 1) * 1000000), 1000)
        x == TDiv(radius * CosAt(index), 1000)
        y == TDiv(radius * SinAt(index), 1000)
    IN  <<x, y>>

euclidean_distance(x1, y1, x2, y2) == Root2(x2 - x1, y2 - y1)

\* distance between two coordinates p = <<x1, y1>> and q = <<x2, y2>>
Dist(p, q) == euclidean_distance(p[1], p[2], q[1], q[2])

RECURSIVE MinOver(_, _)
\* min of f[x] for x in the non-empty set S
MinOver(S, f) ==
    Once(CHOOSE y \in S : TRUE, LAMBDA x :
        IF S = {x} THEN f[x]
        ELSE Once(MinOver(S \ {x}, f), LAMBDA m : IF f[x] < m THEN f[x] ELSE m))

\* max of f[x] for x in the non-empty set S; max(d) = -min(-d)
MaxOver(S, f) == -MinOver(S, [x \in S |-> -f[x]])

\* the Metrics record of a layout; a quotient is rounded toward zero
calculate_metrics(pos, es) ==
    IF es = {}
    THEN [edge_count |-> 0, total_distance |-> 0, avg_distance |-> 0,
          min_distance |-> 0, max_distance |-> 0]
    ELSE LET distances_ == [e \in es |-> Dist(pos[e[1]], pos[e[2]])]
             total == SumOver(es, distances_)
         IN  [edge_count |-> Cardinality(es),
              total_distance |-> total,
              avg_distance |-> TDiv(total, Cardinality(es)),
              min_distance |-> MinOver(es, distances_),
              max_distance |-> MaxOver(es, distances_)]

(***************************************************************************)
(* Inputs                                                                  *)
(***************************************************************************)
ActorIds(n) == 0 .. (n - 1)

\* canonical (min, max) pairs over the actors: what deduplicate_edges keeps
CanonicalPairs(n) == {e \in ActorIds(n) \X ActorIds(n) : e[1] < e[2]}

\* The node -> slot assignment a stage is given.  Actor ids are labels: a run
\* from any bijection is a run from this one on the graph with the actors
\* renamed by their initial slots, and the edge sets range over all graphs.
InitialOrdinals(n) == [a \in ActorIds(n) |-> a]

(***************************************************************************)
(* 03-swap-optimization.py                                                 *)
(***************************************************************************)
build_adjacency(es) ==
    LET touched == {e[1] : e \in es} \cup {e[2] : e \in es}
    IN  [a \in touched |->
            {e[2] : e \in {d \in es : d[1] = a}} \cup {e[1] : e \in {d \in es : d[2] = a}}]

calculate_actor_contribution(actor_id, pos, adj) ==
    IF actor_id \notin DOMAIN adj THEN 0
    ELSE SumOver(adj[actor_id],
                 [neighbor_id \in adj[actor_id] |-> Dist(pos[actor_id], pos[neighbor_id])])

\* faulty variant: the second assignment of the exchange is lost
ExchangeHalf(f, a, b) == [f EXCEPT ![a] = f[b]]

\* a, b = b, a on the values of a mapping at keys a and b
Exchange(f, a, b) == [f EXCEPT ![a] = f[b], ![b] = f[a]]

\* faulty variant: the slots are exchanged, the coordinates are not
AcceptSwapSlotsOnly(pos, ord, a, b) ==
    [positions |-> pos, ordinals |-> Exchange(ord, a, b)]

\* faulty variant: the slot of actor_j is overwritten, not exchanged
AcceptSwapOverwrite(pos, ord, a, b) ==
    [positions |-> Exchange(pos, a, b), ordinals |-> [ord EXCEPT ![b] = ord[a]]]

\* the accepted-swap update of lines 170-171
AcceptSwap(pos, ord, a, b) ==
    [positions |-> Exchange(pos, a, b), ordinals |-> Exchange(ord, a, b)]

\* faulty variant: the tentative exchange is not undone
try_swap_no_revert(a_i, a_j, pos, adj) ==
    LET swapped == Exchange(pos, a_i, a_j)
        connected == a_i \in DOMAIN adj /\ a_j \in adj[a_i]
        old_total == calculate_actor_contribution(a_i, pos, adj)
                     + calculate_actor_contribution(a_j, pos, adj)
                     - (IF connected THEN Dist(pos[a_i], pos[a_j]) ELSE 0)
        new_total == calculate_actor_contribution(a_i, swapped, adj)
                     + calculate_actor_contribution(a_j, swapped, adj)
                     - (IF connected THEN Dist(swapped[a_i], swapped[a_j]) ELSE 0)
    IN  [delta |-> new_total - old_total, positions |-> swapped]

\* faulty variant: only the contribution of actor_i is evaluated
try_swap_one_sided(a_i, a_j, pos, adj) ==
    LET swapped == Exchange(pos, a_i, a_j)
    IN  [delta |-> calculate_actor_contribution(a_i, swapped, adj)
                   - calculate_actor_contribution(a_i, pos, adj),
         positions |-> pos]

\* faulty variant: the shared edge is subtracted from the new total only
try_swap_adjust_new_only(a_i, a_j, pos, adj) ==
    LET swapped == Exchange(pos, a_i, a_j)
        connected == a_i \in DOMAIN adj /\ a_j \in adj[a_i]
        old_total == calculate_actor_contribution(a_i, pos, adj)
                     + calculate_actor_contribution(a_j, pos, adj)
        new_total == calculate_actor_contribution(a_i, swapped, adj)
                     + calculate_actor_contribution(a_j, swapped, adj)
                     - (IF connected THEN Dist(swapped[a_i], swapped[a_j]) ELSE 0)
    IN  [delta |-> new_total - old_total, positions |-> pos]

\* try_swap returns the delta; `positions` is the mapping as try_swap leaves it
try_swap(a_i, a_j, pos, adj) ==
    LET old_contrib_i == calculate_actor_contribution(a_i, pos, adj)
        old_contrib_j == calculate_actor_contribution(a_j, pos, adj)
        connected == a_i \in DOMAIN adj /\ a_j \in adj[a_i]
        adjustment_old == IF connected THEN Dist(pos[a_i], pos[a_j]) ELSE 0
        old_total == old_contrib_i + old_contrib_j - adjustment_old
        swapped == Exchange(pos, a_i, a_j)
        new_contrib_i == calculate_actor_contribution(a_i, swapped, adj)
        new_contrib_j == calculate_actor_contribution(a_j, swapped, adj)
        adjustment_new == IF connected THEN Dist(swapped[a_i], swapped[a_j])
                                       ELSE adjustment_old
        new_total == new_contrib_i + new_contrib_j - adjustment_new
        restored == Exchange(swapped, a_i, a_j)
    IN  [delta |-> new_total - old_total, positions |-> restored]

\* sum(euclidean_distance(*positions[e[0]], *positions[e[1]]) for e in edges)
TotalDistance(pos, es) == SumOver(es, [e \in es |-> Dist(pos[e[1]], pos[e[2]])])

\* faulty variant: the epsilon is dropped
SwapAcceptsNoEpsilon(d) == d < 0

\* faulty variant: the sign of the epsilon is lost
SwapAcceptsWrongSign(d) == d < SWAP_EPSILON

\* delta < -0.001
SwapAccepts(d) == d < -SWAP_EPSILON

\* 'stagnation' if stagnation_counter >= STAGNATION_THRESHOLD else 'max_iterations'
SwapStoppedReason(stagnation) ==
    IF stagnation >= STAGNATION_THRESHOLD THEN "stagnation" ELSE "max_iterations"

\* faulty variant: the stagnation counter is tested with <=
SwapLoopConditionLateStop(stagnation, iter) ==
    stagnation <= STAGNATION_THRESHOLD /\ iter < MAX_ITERATIONS

\* faulty variant: the cap is tested with <=
SwapLoopConditionOffByOne(stagnation, iter) ==
    stagnation < STAGNATION_THRESHOLD /\ iter <= MAX_ITERATIONS

\* while stagnation_counter < STAGNATION_THRESHOLD and iteration < MAX_ITERATIONS
SwapLoopCondition(stagnation, iter) ==
    stagnation < STAGNATION_THRESHOLD /\ iter < MAX_ITERATIONS

(***************************************************************************)
(* optimize-layout.py                                                      *)
(***************************************************************************)
\* cos and sin of index * GOLDEN_ANGLE, which is 137.5 degrees here, in 1/1000
LayoutCosMilli == <<1000, -737, 87, 609, -985, 843, -259, -462,
                    940, -924, 423, 301, -866, 976, -574, -131>>
LayoutSinMilli == <<0, 676, -996, 793, -174, -537, 966, -887,
                    342, 383, -906, 954, -500, -216, 819, -991>>

\* the script's own calculate_vogel_position (lines 44-53)
layout_calculate_vogel_position(index, spacing) ==
    LET radius == TDiv(spacing * ISqrt((index + 1) * 1000000), 1000)
        x == TDiv(radius * LayoutCosMilli[index + 1], 1000)
        y == TDiv(radius * LayoutSinMilli[index + 1], 1000)
    IN  <<x, y>>

\* the matrix of distances between the first num_positions spiral positions
precompute_distances(num_positions, spacing) ==
    [p \in 0 .. (num_positions - 1) |->
        [q \in 0 .. (num_positions - 1) |->
            Dist(layout_calculate_vogel_position(p, spacing),
                 layout_calculate_vogel_position(q, spacing))]]

calculate_objective(perm, es, dm) ==
    SumOver(es, [e \in es |-> dm[perm[e[1]]][perm[e[2]]]])

\* faulty variant: the scan looks at the first endpoint only
InvolvedFirstEndpoint(es, ii, jj) == {e \in es : e[1] = ii \/ e[1] = jj}

\* the edges the scan of lines 295-310 counts: those with i or j as an endpoint
Involved(es, ii, jj) ==
    {e \in es : e[1] = ii \/ e[1] = jj \/ e[2] = ii \/ e[2] = jj}

\* position index of actor a once i and j are exchanged (lines 307-308)
NewPos(perm, a, ii, jj) ==
    IF a = ii THEN perm[jj] ELSE IF a = jj THEN perm[ii] ELSE perm[a]

\* delta = new_contribution - old_contribution of lines 291-313
TwoOptDelta(perm, es, dm, ii, jj) ==
    LET inv == Involved(es, ii, jj)
        old_contribution == SumOver(inv, [e \in inv |-> dm[perm[e[1]]][perm[e[2]]]])
        new_contribution ==
            SumOver(inv, [e \in inv |->
                dm[NewPos(perm, e[1], ii, jj)][NewPos(perm, e[2], ii, jj)]])
    IN  new_contribution - old_contribution

\* delta < -0.01
TwoOptAccepts(d) == d < -TWO_OPT_EPSILON

\* while iterations < max_iterations and no_improve_count < no_improve_limit
TwoOptLoopCondition(iters, count, max_iter, limit) ==
    iters < max_iter /\ count < limit

\* lines 334-338
TwoOptStopReason(iters, max_iter) ==
    IF iters >= max_iter THEN "max_iterations" ELSE "early_stop"

(***************************************************************************)
(* 04-force-relaxation.py                                                  *)
(***************************************************************************)
\* calculate_objective of the relaxer: total edge length of a layout
RelaxObjective(pos, es) ==
    SumOver(es, [e \in es |-> Once(pos[e[1]], LAMBDA p :
                              Once(pos[e[2]], LAMBDA q : Dist(p, q)))])

\* unit vector (in 1/1000) from p to q and their distance; lines 105-113, 131-140
Direction(p, q) ==
    LET dx == q[1] - p[1]
        dy == q[2] - p[2]
    IN  Once(Root2(dx, dy), LAMBDA dist :
            IF dist = 0 THEN [dist |-> 0, x |-> 1000, y |-> 0]
            ELSE [dist |-> dist, x |-> TDiv(dx * 1000, dist), y |-> TDiv(dy * 1000, dist)])

\* force on the source of edge e, the target gets its negation (lines 102-122)
AttractionForce(pos, e) ==
    Once(Direction(pos[e[1]], pos[e[2]]), LAMBDA d :
        LET magnitude == TDiv(ATTRACTION_STRENGTH * d.dist, 1000)
        IN  IF d.dist = 0 THEN <<0, 0>>
            ELSE <<TDiv(d.x * magnitude, 1000), TDiv(d.y * magnitude, 1000)>>)

\* force on actor_j of the pair i before j, actor_i gets its negation (lines 125-153)
RepulsionForce(pos, i, j) ==
    Once(Direction(pos[i], pos[j]), LAMBDA d :
        LET overlap == MIN_DISTANCE - d.dist
            magnitude == TDiv(REPULSION_STRENGTH * overlap, 1000)
        IN  IF d.dist < MIN_DISTANCE
            THEN <<TDiv(d.x * magnitude, 1000), TDiv(d.y * magnitude, 1000)>>
            ELSE <<0, 0>>)

\* a function with its values computed
Evaluated(f) == CHOOSE g \in {f} : g = g

\* the sum of the forces on aid, given the pull of each of its edges and the
\* push of each other actor on the source of the edge, on the first of the pair
TotalForce(aid, pos, orig, incident, pull, others, push) ==
    [c \in 1 .. 2 |->
        SumOver(incident, [e \in incident |-> IF e[1] = aid THEN pull[e][c] ELSE -pull[e][c]])
        + SumOver(others, [b \in others |-> IF aid < b THEN -push[b][c] ELSE push[b][c]])
        + TDiv(ANCHOR_STRENGTH * (orig[aid][c] - pos[aid][c]), 1000)]

\* forces[aid] after the three force loops
ForceVector(aid, pos, orig, es, ids) ==
    LET incident == {e \in es : e[1] = aid \/ e[2] = aid}
        others == ids \ {aid}
    IN  Once(Evaluated([e \in incident |-> AttractionForce(pos, e)]), LAMBDA pull :
        Once(Evaluated([b \in others |-> IF aid < b THEN RepulsionForce(pos, aid, b)
                                         ELSE RepulsionForce(pos, b, aid)]), LAMBDA push :
            Evaluated(TotalForce(aid, pos, orig, incident, pull, others, push))))

\* component c (1 = x, 2 = y) of forces[aid]
Force(aid, c, pos, orig, es, ids) == ForceVector(aid, pos, orig, es, ids)[c]

\* faulty variant: the step is applied as computed, whatever its length
CapStepMissing(step, limit) == step

\* the cap of lines 165-172: a step longer than the limit is scaled to it
CapStep(step, limit) ==
    Once(Root2(step[1], step[2]), LAMBDA step_mag :
        IF step_mag > limit
        THEN <<TDiv(step[1] * limit, step_mag), TDiv(step[2] * limit, step_mag)>>
        ELSE step)

\* step_x, step_y of one actor before the cap (lines 163-164)
RawStep(aid, pos, orig, es, ids) ==
    Once(ForceVector(aid, pos, orig, es, ids), LAMBDA force :
        <<TDiv(STEP_SIZE * force[1], 1000), TDiv(STEP_SIZE * force[2], 1000)>>)

\* the capped step of one actor (lines 162-172)
Step(aid, pos, orig, es, ids) ==
    Once(RawStep(aid, pos, orig, es, ids), LAMBDA step : CapStep(step, MAX_STEP))

\* positions[aid] += step, the steps capped at limit (lines 174-175)
ApplySteps(pos, raw, limit) ==
    [aid \in DOMAIN pos |-> Once(CapStep(raw[aid], limit),
                             LAMBDA step : <<pos[aid][1] + step[1], pos[aid][2] + step[2]>>)]

\* the layout after one pass of the for body (lines 98-176)
RelaxStep(pos, orig, es, ids) ==
    ApplySteps(pos, [aid \in ids |-> RawStep(aid, pos, orig, es, ids)], MAX_STEP)

\* improvement >= IMPROVEMENT_THRESHOLD, improvement being
\* (prev_obj - current_obj) / prev_obj if prev_obj > 0 else 0.0 (lines 180-182)
Improves(prev, current) ==
    IF prev > 0 THEN (prev - current) * 1000 >= IMPROVEMENT_THRESHOLD * prev
    ELSE 0 >= IMPROVEMENT_THRESHOLD

\* faulty variant: a run that used up all its iterations never counts as converged
ConvergedBeforeCap(stalled, iter) == stalled >= PATIENCE /\ iter < RELAX_MAX_ITERATIONS

\* stats['converged'] (line 207)
Converged(stalled, iter) == stalled >= PATIENCE

\* faulty variant: the break on the patience limit is missing
RelaxLoopConditionNoBreak(iter, stalled) == iter < RELAX_MAX_ITERATIONS

\* the for statement has another value and the body has not hit its break
RelaxLoopCondition(iter, stalled) == iter < RELAX_MAX_ITERATIONS /\ stalled < PATIENCE

\* the layouts the relaxer is started on: the spiral at the pipeline's spacing,
\* a spiral with overlapping neighbours, and a line whose first two nodes overlap
\* while the first is pulled away from the second
InputLayouts(n) ==
    { [a \in ActorIds(n) |-> calculate_vogel_position(a, DEFAULT_SPACING)],
      [a \in ActorIds(n) |-> calculate_vogel_position(a, TightSpacing)],
      [a \in ActorIds(n) |-> IF a = 1 THEN <<-TightSpacing, 0>>
                             ELSE <<a * 50000, 0>>] }
    \cup
    \* the line with a small overlap, whose repulsion fades within a few steps
    { [a \in ActorIds(n) |-> IF a = 1 THEN <<-gap, 0>> ELSE <<a * 50000, 0>>] :
          gap \in {LongStallGap, ShortStallGap} }

(***************************************************************************)
(* relax-layout.py.  The knobs are arguments of relax_layout; they are     *)
(* taken at the defaults of build_parser, which are the constants of       *)
(* 04-force-relaxation.py, except --max-step, which is set low enough for  *)
(* the cap to act.                                                         *)
(***************************************************************************)
\* the recognizability of the loaded actors, most recognizable first
Recognizability(n) == [a \in ActorIds(n) |-> 100 - a]

\* min-max normalisation in 1/1000, 0.5 for every actor when all are equal
normalize_recognizability(values) ==
    LET min_val == MinOver(DOMAIN values, values)
        max_val == MaxOver(DOMAIN values, values)
    IN  IF max_val <= min_val THEN [a \in DOMAIN values |-> 500]
        ELSE [a \in DOMAIN values |-> TDiv((values[a] - min_val) * 1000, max_val - min_val)]

\* 1.0 + weight_scale * avg_recog per edge, in 1/1000
compute_edge_weights(es, normalized_recog, weight_scale) ==
    [e \in es |->
        1000 + TDiv(weight_scale * TDiv(normalized_recog[e[1]] + normalized_recog[e[2]], 2),
                    1000)]

\* the weighted total edge length
objective(pos, es, edge_weights) ==
    SumOver(es, [e \in es |-> Once(pos[e[1]], LAMBDA p :
                              Once(pos[e[2]], LAMBDA q :
                                  TDiv(edge_weights[e] * Dist(p, q), 1000)))])

\* force on node i of edge e = (i, j), j gets its negation (lines 136-150)
WeightedAttractionForce(pos, e, weight) ==
    Once(Direction(pos[e[1]], pos[e[2]]), LAMBDA d :
        LET magnitude == TDiv(ATTRACTION_STRENGTH * TDiv(weight * d.dist, 1000), 1000)
        IN  IF d.dist = 0 THEN <<0, 0>>
            ELSE <<TDiv(d.x * magnitude, 1000), TDiv(d.y * magnitude, 1000)>>)

\* forces[aid] after the force loops of relax_layout (lines 133-176)
WeightedForce(aid, pos, orig, es, ids, edge_weights) ==
    LET incident == {e \in es : e[1] = aid \/ e[2] = aid}
        others == ids \ {aid}
    IN  Once(Evaluated([e \in incident |->
                 WeightedAttractionForce(pos, e, edge_weights[e])]), LAMBDA pull :
        Once(Evaluated([b \in others |-> IF aid < b THEN RepulsionForce(pos, aid, b)
                                         ELSE RepulsionForce(pos, b, aid)]), LAMBDA push :
            Evaluated(TotalForce(aid, pos, orig, incident, pull, others, push))))

\* steps = step_size * forces, one row of it (line 179)
WeightedRawStep(aid, pos, orig, es, ids, edge_weights) ==
    Once(WeightedForce(aid, pos, orig, es, ids, edge_weights), LAMBDA force :
        <<TDiv(STEP_SIZE * force[1], 1000), TDiv(STEP_SIZE * force[2], 1000)>>)

(***************************************************************************)
(* Graph building: deduplicate_edges, 02-centrality-ordering.py and the     *)
(* build_graph / greedy_initial_solution of optimize-layout.py.  The actors *)
(* are listed in the order of their ids, so an actor's index in build_graph *)
(* is its id.                                                               *)
(***************************************************************************)
\* the raw rows: every <<Source, Target>> over the ids 0 .. MaxActors - 1, so
\* that with fewer than MaxActors actors loaded some rows name an unknown id
RawIds == 0 .. (MaxActors - 1)

RawConnections ==
    UNION {[1 .. k -> RawIds \X RawIds] : k \in 0 .. MaxConnections}

\* fetch_connections: the rows whose Source or Target is a loaded actor
FetchedConnections(ids) ==
    {conns \in RawConnections :
        \A k \in DOMAIN conns : conns[k][1] \in ids \/ conns[k][2] \in ids}

\* faulty variant: the pair is stored as observed
UnsortedPair(source_id, target_id) == <<source_id, target_id>>

\* tuple(sorted([source_id, target_id]))
SortedPair(source_id, target_id) ==
    IF target_id < source_id THEN <<target_id, source_id>> ELSE <<source_id, target_id>>

RECURSIVE DeduplicateFrom(_, _, _, _)
\* the for loop of deduplicate_edges from row k on, edge_set being the set so far
DeduplicateFrom(conns, actor_id_set, k, edge_set) ==
    IF k > Len(conns) THEN edge_set
    ELSE LET source_id == conns[k][1]
             target_id == conns[k][2]
         IN  DeduplicateFrom(conns, actor_id_set, k + 1,
                 IF source_id \in actor_id_set /\ target_id \in actor_id_set
                 THEN edge_set \cup {SortedPair(source_id, target_id)}
                 ELSE edge_set)

deduplicate_edges(conns, actor_id_set) == DeduplicateFrom(conns, actor_id_set, 1, {})

RECURSIVE CountFrom(_, _, _)
\* the counting loop of calculate_degrees over the edges in list order
CountFrom(edge_list, k, counts) ==
    IF k > Len(edge_list) THEN counts
    ELSE LET source_id == edge_list[k][1]
             target_id == edge_list[k][2]
             once == [counts EXCEPT ![source_id] = @ + 1]
         IN  CountFrom(edge_list, k + 1, [once EXCEPT ![target_id] = @ + 1])

RECURSIVE ListOf(_)
\* list(edge_set): the members in some order (the counts do not depend on it)
ListOf(S) ==
    IF S = {} THEN <<>>
    ELSE Once(CHOOSE y \in S : TRUE, LAMBDA x : <<x>> \o ListOf(S \ {x}))

calculate_degrees(es, ids) == CountFrom(ListOf(es), 1, [a \in ids |-> 0])

RECURSIVE AdjacencyFrom(_, _, _, _)
\* the adjacency part of the for loop of build_graph from row k on
AdjacencyFrom(conns, actor_id_set, k, adj) ==
    IF k > Len(conns) THEN adj
    ELSE LET source_idx == conns[k][1]
             target_idx == conns[k][2]
             one == [adj EXCEPT ![source_idx] = @ \cup {target_idx}]
         IN  AdjacencyFrom(conns, actor_id_set, k + 1,
                 IF source_idx \in actor_id_set /\ target_idx \in actor_id_set
                 THEN [one EXCEPT ![target_idx] = @ \cup {source_idx}]
                 ELSE adj)

\* build_graph: the edge set, the adjacency sets (a defaultdict, so an actor
\* never touched has the empty set once its degree is read) and the degrees
build_graph(ids, conns) ==
    LET adj == AdjacencyFrom(conns, ids, 1, [a \in ids |-> {}])
    IN  [edges |-> DeduplicateFrom(conns, ids, 1, {}),
         adjacency |-> adj,
         degree |-> [idx \in ids |-> Cardinality(adj[idx])]]

RECURSIVE Reversed(_)
Reversed(seq) ==
    Once(seq, LAMBDA items :
        IF items = <<>> THEN <<>>
        ELSE <<items[Len(items)]>> \o Reversed(SubSeq(items, 1, Len(items) - 1)))

\* x put into the ascending list after every item whose key is not larger
InsertByKey(seq, x, key) ==
    LET IsBefore(y) == key[y] <= key[x]
        IsAfter(y) == key[y] > key[x]
    IN  Once(seq, LAMBDA items :
            SelectSeq(items, IsBefore) \o <<x>> \o SelectSeq(items, IsAfter))

RECURSIVE SortedAscending(_, _)
\* a stable ascending sort, as list.sort is
SortedAscending(seq, key) ==
    Once(seq, LAMBDA items :
        IF items = <<>> THEN <<>>
        ELSE InsertByKey(SortedAscending(SubSeq(items, 1, Len(items) - 1), key),
                         items[Len(items)], key))

\* sorted(seq, key = ..., reverse = ...): with reverse = True the list is
\* reversed before and after the stable ascending sort, which keeps equal
\* items in their input order
sorted(seq, key, reverse) ==
    IF reverse THEN Reversed(SortedAscending(Reversed(seq), key))
    ELSE SortedAscending(seq, key)

\* the actors as a list, in input order
ActorList(n) == [k \in 1 .. n |-> k - 1]

\* the ordinals of 02-centrality-ordering.py main: enumerate(actors_by_degree)
AssignOrdinals(n, degrees) ==
    Once(sorted(ActorList(n), degrees, TRUE), LAMBDA actors_by_degree :
        [a \in ActorIds(n) |-> (CHOOSE k \in 1 .. n : actors_by_degree[k] = a) - 1])

greedy_initial_solution(num_actors, degrees, dm) ==
    Once(sorted(ActorList(num_actors), degrees, TRUE), LAMBDA actors_by_degree :
    Once([i \in ActorIds(num_actors) |-> dm[i][0]], LAMBDA position_centrality :
    Once(sorted(ActorList(num_actors), position_centrality, FALSE),
         LAMBDA positions_by_centrality :
        [actor_idx \in ActorIds(num_actors) |->
            positions_by_centrality[CHOOSE k \in 1 .. num_actors :
                                        actors_by_degree[k] = actor_idx]])))

VARIABLES
    stage,              \* which stage function this run executes
    pc,                 \* "loop": at the loop head; "done": returned; "raised": exception
    actor_ids,          \* the set of node ids of the run
    edges,              \* the deduplicated edge set
    initial_positions,  \* argument: node -> coordinate
    initial_ordinals,   \* argument: node -> slot
    positions,          \* node -> coordinate
    ordinals,           \* node -> slot
    adjacency,
    total_distance,
    stagnation_counter,
    iteration,
    swaps_accepted,
    actor_i, actor_j,   \* the pair drawn in the last trial
    delta,              \* the delta evaluated in the last trial
    stopped_reason,     \* 'stopped_reason' of the record returned ('iterations'
                        \* is iteration, 'swaps_accepted' is swaps_accepted)
    \* two_opt_local_search
    permutation,        \* argument: actor index -> position index
    distances,          \* argument: the distance matrix
    max_iterations,
    no_improve_limit,
    current_perm,
    current_obj,
    initial_obj,
    best_obj,
    iterations,
    no_improve_count,
    stop_reason,
    \* run_force_relaxation (it also has actor_ids, edges, initial_positions,
    \* positions, adjacency and iteration)
    original_positions,
    prev_obj,
    no_improve,
    final_obj,              \* stats['final_objective']
    improvement_from_input, \* stats['improvement_from_input'], in 0.01 %
    converged,              \* stats['converged']
    max_step,               \* MAX_STEP, or the max_step argument of relax_layout
    raw_steps,              \* the steps of the last iteration before the cap
    weights,                \* the edge weights of relax-layout.py
    reported_original,      \* the original_x, original_y columns save_positions wrote
    \* graph building: 02-centrality-ordering.py main, optimize-layout.py
    \* build_graph and greedy_initial_solution (they also have actor_ids, edges
    \* and adjacency)
    connections,            \* the raw (Source, Target) rows, in file order
    program,                \* which of the two programs built the graph
    degree,                 \* actor -> degree
    slot,                   \* actor -> ordinal / permutation entry
    \* calculate_vogel_position called for two indices
    spiral_spacing,
    spiral_index,
    spiral_other,
    spiral_position,
    spiral_other_position,
    \* the head of two_opt_local_search (lines 259-267) resolving its budgets
    num_edges,              \* len(edges)
    arg_max_iterations,     \* the max_iterations argument, NoArg for None
    arg_no_improve_limit,   \* the no_improve_limit argument, NoArg for None
    budget_max_iterations,  \* max_iterations after line 262
    budget_no_improve_limit,\* no_improve_limit after line 267
    quality_level,          \* the quality string of calculate_adaptive_iterations
    \* two executions of one optimizer on the same input, side by side
    repro_program,          \* "03-swap-optimization" or "optimize-layout"
    repro_input,            \* what both executions are given
    run_a,                  \* the local variables of the first execution
    run_b,                  \* the local variables of the second execution
    \* main of generate-optimized-layout.py and of relax-layout.py reading a
    \* permutation file
    loader_program,         \* which of the two programs runs
    num_actors,             \* len(actors)
    supplied_permutation,   \* the list in the file, in file order
    layout_slots,           \* per actor, the slot its coordinate is taken from
    layout_source,          \* "permutation", or "base" for the input file's own
    \* 04-shortest-paths.py: one pass of the for loop of main
    adj,                    \* node -> list of neighbours, as load_graph built it
    source,                 \* pid
    dist,                   \* bfs_distances: node -> distance, discovered nodes
    queue,                  \* bfs_distances: the deque
    full_distances,         \* main: other node -> distance or NoDistance
    reachable,
    unreachable,
    \* try_swap and the delta of two_opt_local_search on one input
    trial_input,            \* the actors, the edge set and the slot assignment
    swap_deltas,            \* geometry -> pair -> what try_swap returns
    scan_deltas             \* geometry -> pair -> delta of lines 291-313

swapVars == <<actor_ids, edges, initial_positions, initial_ordinals, positions,
              ordinals, adjacency, total_distance, stagnation_counter, iteration,
              swaps_accepted, actor_i, actor_j, delta, stopped_reason>>

twoOptVars == <<permutation, distances, max_iterations, no_improve_limit,
                current_perm, current_obj, initial_obj, best_obj, iterations,
                no_improve_count, stop_reason>>

\* the variables run_swap_optimization has and two_opt_local_search has not
swapOnlyVars == <<initial_positions, initial_ordinals, positions, ordinals, adjacency,
                  total_distance, stagnation_counter, iteration, swaps_accepted,
                  stopped_reason>>

relaxOnlyVars == <<original_positions, prev_obj, no_improve, final_obj,
                   improvement_from_input, converged, max_step, raw_steps, weights,
                   reported_original>>

graphVars == <<connections, program, degree, slot>>

spiralVars == <<spiral_spacing, spiral_index, spiral_other, spiral_position,
                spiral_other_position>>

budgetVars == <<num_edges, arg_max_iterations, arg_no_improve_limit,
                budget_max_iterations, budget_no_improve_limit, quality_level>>

\* the variables of the stages that stand alone
reproVars == <<repro_program, repro_input, run_a, run_b>>

loaderVars == <<loader_program, num_actors, supplied_permutation, layout_slots,
                layout_source>>

bfsVars == <<adj, source, dist, queue, full_distances, reachable, unreachable>>

deltaVars == <<trial_input, swap_deltas, scan_deltas>>

extraVars == <<budgetVars, reproVars, loaderVars, bfsVars, deltaVars>>

vars == <<stage, pc, swapVars, twoOptVars, relaxOnlyVars, graphVars, spiralVars,
          extraVars>>

GraphIdle ==
    /\ connections = Null /\ program = Null /\ degree = Null /\ slot = Null

SpiralIdle ==
    /\ spiral_spacing = Null /\ spiral_index = Null /\ spiral_other = Null
    /\ spiral_position = Null /\ spiral_other_position = Null

BudgetIdle ==
    /\ num_edges = Null /\ arg_max_iterations = Null /\ arg_no_improve_limit = Null
    /\ budget_max_iterations = Null /\ budget_no_improve_limit = Null
    /\ quality_level = Null

ReproIdle ==
    /\ repro_program = Null /\ repro_input = Null /\ run_a = Null /\ run_b = Null

LoaderIdle ==
    /\ loader_program = Null /\ num_actors = Null /\ supplied_permutation = Null
    /\ layout_slots = Null /\ layout_source = Null

BfsIdle ==
    /\ adj = Null /\ source = Null /\ dist = Null /\ queue = Null
    /\ full_distances = Null /\ reachable = Null /\ unreachable = Null

DeltaIdle == trial_input = Null /\ swap_deltas = Null /\ scan_deltas = Null

ExtraIdle == BudgetIdle /\ ReproIdle /\ LoaderIdle /\ BfsIdle /\ DeltaIdle

RelaxIdle ==
    /\ original_positions = Null /\ prev_obj = Null /\ no_improve = Null
    /\ final_obj = Null /\ improvement_from_input = Null /\ converged = Null
    /\ max_step = Null /\ raw_steps = Null /\ weights = Null /\ reported_original = Null

TwoOptIdle ==
    /\ permutation = Null /\ distances = Null /\ max_iterations = Null
    /\ no_improve_limit = Null /\ current_perm = Null /\ current_obj = Null
    /\ initial_obj = Null /\ best_obj = Null /\ iterations = Null
    /\ no_improve_count = Null /\ stop_reason = Null

SwapIdle ==
    /\ initial_positions = Null /\ initial_ordinals = Null /\ positions = Null
    /\ ordinals = Null /\ adjacency = Null /\ total_distance = Null
    /\ stagnation_counter = Null /\ iteration = Null /\ swaps_accepted = Null
    /\ stopped_reason = Null

\* run_swap_optimization up to the loop head (lines 134-157)
SwapInit ==
    \E n \in 2 .. MaxActors :
    \E es \in SUBSET CanonicalPairs(n) :
    \E ord \in {InitialOrdinals(n)} :
    \E spacing \in {SwapSpacing} :
        /\ stage = "swap"
        /\ pc = "loop"
        /\ actor_ids = ActorIds(n)
        /\ edges = es
        /\ initial_ordinals = ord
        /\ initial_positions = [a \in ActorIds(n) |-> calculate_vogel_position(ord[a], spacing)]
        /\ positions = initial_positions
        /\ ordinals = initial_ordinals
        /\ adjacency = build_adjacency(es)
        /\ total_distance = TotalDistance(initial_positions, es)
        /\ stagnation_counter = 0
        /\ iteration = 0
        /\ swaps_accepted = 0
        /\ actor_i = NoActor
        /\ actor_j = NoActor
        /\ delta = 0
        /\ stopped_reason = Null
        /\ TwoOptIdle
        /\ RelaxIdle
        /\ GraphIdle
        /\ SpiralIdle
        /\ ExtraIdle

\* one pass through the while body (lines 159-181)
SwapIteration ==
    /\ stage = "swap"
    /\ pc = "loop"
    /\ SwapLoopCondition(stagnation_counter, iteration)
    /\ \E a_i, a_j \in actor_ids :
        /\ a_i # a_j
        /\ \E r \in {try_swap(a_i, a_j, positions, adjacency)} :
               /\ actor_i' = a_i
               /\ actor_j' = a_j
               /\ delta' = r.delta
               /\ iteration' = iteration + 1
               /\ IF SwapAccepts(r.delta)
                  THEN /\ \E swapped \in {AcceptSwap(r.positions, ordinals, a_i, a_j)} :
                            /\ positions' = swapped.positions
                            /\ ordinals' = swapped.ordinals
                       /\ total_distance' = total_distance + r.delta
                       /\ swaps_accepted' = swaps_accepted + 1
                       /\ stagnation_counter' = 0
                  ELSE /\ positions' = r.positions
                       /\ stagnation_counter' = stagnation_counter + 1
                       /\ UNCHANGED <<ordinals, total_distance, swaps_accepted>>
    /\ UNCHANGED <<stage, pc, actor_ids, edges, initial_positions, initial_ordinals,
                   adjacency, stopped_reason, twoOptVars, relaxOnlyVars, graphVars, spiralVars, extraVars>>

\* loop exit and return (lines 183-194)
SwapReturn ==
    /\ stage = "swap"
    /\ pc = "loop"
    /\ ~SwapLoopCondition(stagnation_counter, iteration)
    /\ stopped_reason' = SwapStoppedReason(stagnation_counter)
    /\ pc' = "done"
    /\ UNCHANGED <<stage, actor_ids, edges, initial_positions, initial_ordinals,
                   positions, ordinals, adjacency, total_distance, stagnation_counter,
                   iteration, swaps_accepted, actor_i, actor_j, delta, twoOptVars,
                   relaxOnlyVars, graphVars, spiralVars, extraVars>>

\* two_opt_local_search up to the loop head (lines 259-283)
TwoOptInit ==
    \E n \in 2 .. MaxActors :
    \E es \in SUBSET CanonicalPairs(n) :
    \E max_iter \in (MaxIterationsArg - 1) .. MaxIterationsArg :
    \E limit \in {NoImproveLimitArg} :
        /\ stage = "two_opt"
        /\ pc = "loop"
        /\ actor_ids = ActorIds(n)
        /\ edges = es
        /\ permutation = InitialOrdinals(n)
        /\ distances = precompute_distances(n, SPACING)
        /\ max_iterations = max_iter
        /\ no_improve_limit = limit
        /\ current_perm = permutation
        /\ current_obj = calculate_objective(permutation, es, distances)
        /\ initial_obj = current_obj
        /\ best_obj = current_obj
        /\ iterations = 0
        /\ no_improve_count = 0
        /\ stop_reason = Null
        /\ actor_i = NoActor
        /\ actor_j = NoActor
        /\ delta = 0
        /\ SwapIdle
        /\ RelaxIdle
        /\ GraphIdle
        /\ SpiralIdle
        /\ ExtraIdle

\* one pass through the while body (lines 285-324)
TwoOptIteration ==
    /\ stage = "two_opt"
    /\ pc = "loop"
    /\ TwoOptLoopCondition(iterations, no_improve_count, max_iterations, no_improve_limit)
    /\ \E ii, jj \in actor_ids :
        /\ ii # jj
        /\ \E d \in {TwoOptDelta(current_perm, edges, distances, ii, jj)} :
               /\ actor_i' = ii
               /\ actor_j' = jj
               /\ delta' = d
               /\ iterations' = iterations + 1
               /\ IF TwoOptAccepts(d)
                  THEN /\ current_perm' = Exchange(current_perm, ii, jj)
                       /\ current_obj' = current_obj + d
                       /\ no_improve_count' = 0
                       /\ best_obj' = IF current_obj + d < best_obj
                                      THEN current_obj + d ELSE best_obj
                  ELSE /\ no_improve_count' = no_improve_count + 1
                       /\ UNCHANGED <<current_perm, current_obj, best_obj>>
    /\ UNCHANGED <<stage, pc, actor_ids, edges, permutation, distances, max_iterations,
                   no_improve_limit, initial_obj, stop_reason, swapOnlyVars,
                   relaxOnlyVars, graphVars, spiralVars, extraVars>>

\* loop exit and return (lines 332-345)
TwoOptReturn ==
    /\ stage = "two_opt"
    /\ pc = "loop"
    /\ ~TwoOptLoopCondition(iterations, no_improve_count, max_iterations, no_improve_limit)
    /\ stop_reason' = TwoOptStopReason(iterations, max_iterations)
    /\ pc' = "done"
    /\ UNCHANGED <<stage, actor_ids, edges, actor_i, actor_j, delta, permutation,
                   distances, max_iterations, no_improve_limit, current_perm, current_obj,
                   initial_obj, best_obj, iterations, no_improve_count, swapOnlyVars,
                   relaxOnlyVars, graphVars, spiralVars, extraVars>>

\* run_force_relaxation up to the for statement (lines 83-92)
RelaxInit ==
    \E n \in 1 .. MaxActors :
    \E es \in SUBSET CanonicalPairs(n) :
    \E layout \in InputLayouts(n) :
        /\ stage = "relax"
        /\ pc = "loop"
        /\ actor_ids = ActorIds(n)
        /\ edges = es
        /\ initial_positions = layout
        /\ positions = layout
        /\ original_positions = layout
        /\ adjacency = build_adjacency(es)
        /\ prev_obj = RelaxObjective(layout, es)
        /\ no_improve = 0
        /\ iteration = 0
        /\ final_obj = 0
        /\ improvement_from_input = 0
        /\ converged = FALSE
        /\ max_step = MAX_STEP
        /\ raw_steps = [a \in ActorIds(n) |-> <<0, 0>>]
        /\ weights = Null
        /\ reported_original = Null
        /\ initial_ordinals = Null /\ ordinals = Null /\ total_distance = Null
        /\ stagnation_counter = Null /\ swaps_accepted = Null /\ stopped_reason = Null
        /\ actor_i = NoActor /\ actor_j = NoActor /\ delta = 0
        /\ TwoOptIdle
        /\ GraphIdle
        /\ SpiralIdle
        /\ ExtraIdle

\* one pass through the for body (lines 97-196)
RelaxIteration ==
    /\ stage = "relax"
    /\ pc = "loop"
    /\ RelaxLoopCondition(iteration, no_improve)
    /\ \E raw \in {[aid \in actor_ids |->
                        RawStep(aid, positions, original_positions, edges, actor_ids)]} :
       \E moved \in {ApplySteps(positions, raw, max_step)} :
       \E current \in {RelaxObjective(moved, edges)} :
       \E stalled \in {IF Improves(prev_obj, current) THEN 0 ELSE no_improve + 1} :
           /\ iteration' = iteration + 1
           /\ raw_steps' = raw
           /\ positions' = moved
           /\ no_improve' = stalled
           /\ prev_obj' = IF stalled >= PATIENCE THEN prev_obj ELSE current
    /\ UNCHANGED <<stage, pc, actor_ids, edges, initial_positions, original_positions,
                   adjacency, final_obj, improvement_from_input, converged,
                   max_step, weights, reported_original,
                   initial_ordinals, ordinals, total_distance, stagnation_counter,
                   swaps_accepted, stopped_reason, actor_i, actor_j, delta, twoOptVars,
                   graphVars, spiralVars, extraVars>>

\* after the loop (lines 198-213): the stats divide by the objective of the
\* input layout, and a float division by 0.0 raises ZeroDivisionError
RelaxReturn ==
    /\ stage = "relax"
    /\ pc = "loop"
    /\ ~RelaxLoopCondition(iteration, no_improve)
    /\ \E input_obj \in {RelaxObjective(initial_positions, edges)} :
       \E last_obj \in {RelaxObjective(positions, edges)} :
           IF input_obj = 0
           THEN /\ pc' = "raised"
                /\ UNCHANGED <<final_obj, improvement_from_input, converged>>
           ELSE /\ pc' = "done"
                /\ final_obj' = last_obj
                /\ improvement_from_input' = RoundDiv((input_obj - last_obj) * 10000, input_obj)
                /\ converged' = Converged(no_improve, iteration)
    /\ UNCHANGED <<stage, actor_ids, edges, initial_positions, original_positions,
                   positions, adjacency, prev_obj, no_improve, iteration,
                   max_step, raw_steps, weights, reported_original,
                   initial_ordinals, ordinals, total_distance, stagnation_counter,
                   swaps_accepted, stopped_reason, actor_i, actor_j, delta, twoOptVars,
                   graphVars, spiralVars, extraVars>>

\* relax-layout.py main up to the loop head of relax_layout (lines 288-315,
\* 127-130): positions is the array main made and relax_layout works on
RelaxLayoutInit ==
    \E n \in 1 .. MaxActors :
    \E es \in SUBSET CanonicalPairs(n) :
    \E layout \in InputLayouts(n) :
    \E limit \in {SmallMaxStep} :
    \E edge_weights \in {compute_edge_weights(es,
                             normalize_recognizability(Recognizability(n)), WEIGHT_SCALE)} :
        /\ stage = "relax_layout"
        /\ pc = "loop"
        /\ actor_ids = ActorIds(n)
        /\ edges = es
        /\ weights = edge_weights
        /\ max_step = limit
        /\ initial_positions = layout
        /\ positions = layout
        /\ original_positions = layout
        /\ prev_obj = objective(layout, es, edge_weights)
        /\ no_improve = 0
        /\ iteration = 0
        /\ raw_steps = [a \in ActorIds(n) |-> <<0, 0>>]
        /\ reported_original = [a \in ActorIds(n) |-> <<0, 0>>]
        /\ final_obj = Null /\ improvement_from_input = Null /\ converged = Null
        /\ adjacency = Null
        /\ initial_ordinals = Null /\ ordinals = Null /\ total_distance = Null
        /\ stagnation_counter = Null /\ swaps_accepted = Null /\ stopped_reason = Null
        /\ actor_i = NoActor /\ actor_j = NoActor /\ delta = 0
        /\ TwoOptIdle
        /\ GraphIdle
        /\ SpiralIdle
        /\ ExtraIdle

\* one pass through the for body of relax_layout (lines 132-208); positions += steps
\* writes into the array the caller passed
RelaxLayoutIteration ==
    /\ stage = "relax_layout"
    /\ pc = "loop"
    /\ RelaxLoopCondition(iteration, no_improve)
    /\ \E raw \in {[aid \in actor_ids |->
                        WeightedRawStep(aid, positions, original_positions, edges,
                                        actor_ids, weights)]} :
       \E moved \in {ApplySteps(positions, raw, max_step)} :
       \E current \in {objective(moved, edges, weights)} :
       \E stalled \in {IF Improves(prev_obj, current) THEN 0 ELSE no_improve + 1} :
           /\ iteration' = iteration + 1
           /\ raw_steps' = raw
           /\ positions' = moved
           /\ no_improve' = stalled
           /\ prev_obj' = IF stalled >= PATIENCE THEN prev_obj ELSE current
    /\ UNCHANGED <<stage, pc, actor_ids, edges, initial_positions, original_positions,
                   adjacency, final_obj, improvement_from_input, converged,
                   max_step, weights, reported_original,
                   initial_ordinals, ordinals, total_distance, stagnation_counter,
                   swaps_accepted, stopped_reason, actor_i, actor_j, delta, twoOptVars,
                   graphVars, spiralVars, extraVars>>

\* return positions (line 210) and main's save_positions(args.output, actors,
\* positions, relaxed_positions) (line 331): both arguments are the one array
RelaxLayoutReturn ==
    /\ stage = "relax_layout"
    /\ pc = "loop"
    /\ ~RelaxLoopCondition(iteration, no_improve)
    /\ pc' = "done"
    /\ reported_original' = positions
    /\ UNCHANGED <<stage, actor_ids, edges, initial_positions, original_positions,
                   positions, adjacency, prev_obj, no_improve, iteration,
                   final_obj, improvement_from_input, converged,
                   max_step, raw_steps, weights,
                   initial_ordinals, ordinals, total_distance, stagnation_counter,
                   swaps_accepted, stopped_reason, actor_i, actor_j, delta, twoOptVars,
                   graphVars, spiralVars, extraVars>>

\* the inputs of the graph building programs: the loaded actors and the raw rows
GraphInit ==
    \E n \in (MaxActors - 1) .. MaxActors :
    \E conns \in FetchedConnections(ActorIds(n)) :
        /\ stage = "graph"
        /\ pc = "input"
        /\ actor_ids = ActorIds(n)
        /\ connections = conns
        /\ program = Null
        /\ edges = {}
        /\ adjacency = [a \in ActorIds(n) |-> {}]
        /\ degree = [a \in ActorIds(n) |-> 0]
        /\ slot = [a \in ActorIds(n) |-> 0]
        /\ actor_i = NoActor /\ actor_j = NoActor /\ delta = 0
        /\ initial_positions = Null /\ initial_ordinals = Null /\ positions = Null
        /\ ordinals = Null /\ total_distance = Null /\ stagnation_counter = Null
        /\ iteration = Null /\ swaps_accepted = Null /\ stopped_reason = Null
        /\ TwoOptIdle
        /\ RelaxIdle
        /\ SpiralIdle
        /\ ExtraIdle

\* 02-centrality-ordering.py main, lines 74-93; the adjacency is the one step 3
\* builds from the saved edges (03-swap-optimization.py build_adjacency)
CentralityOrdering ==
    /\ stage = "graph"
    /\ pc = "input"
    /\ \E es \in {deduplicate_edges(connections, actor_ids)} :
       \E degrees \in {calculate_degrees(es, actor_ids)} :
           /\ edges' = es
           /\ degree' = degrees
           /\ slot' = AssignOrdinals(Cardinality(actor_ids), degrees)
           /\ adjacency' = build_adjacency(es)
    /\ program' = "02-centrality-ordering"
    /\ pc' = "done"
    /\ UNCHANGED <<stage, actor_ids, connections, initial_positions, initial_ordinals,
                   positions, ordinals, total_distance, stagnation_counter, iteration,
                   swaps_accepted, stopped_reason, actor_i, actor_j, delta,
                   twoOptVars, relaxOnlyVars, spiralVars, extraVars>>

\* optimize-layout.py: build_graph, precompute_distances and
\* greedy_initial_solution as main calls them
BuildGraph ==
    /\ stage = "graph"
    /\ pc = "input"
    /\ \E graph \in {build_graph(actor_ids, connections)} :
       \E dm \in {precompute_distances(Cardinality(actor_ids), SPACING)} :
           /\ edges' = graph.edges
           /\ adjacency' = graph.adjacency
           /\ degree' = graph.degree
           /\ slot' = greedy_initial_solution(Cardinality(actor_ids), graph.degree, dm)
    /\ program' = "optimize-layout"
    /\ pc' = "done"
    /\ UNCHANGED <<stage, actor_ids, connections, initial_positions, initial_ordinals,
                   positions, ordinals, total_distance, stagnation_counter, iteration,
                   swaps_accepted, stopped_reason, actor_i, actor_j, delta,
                   twoOptVars, relaxOnlyVars, spiralVars, extraVars>>

\* the arguments of two calls of calculate_vogel_position
SpiralInit ==
    \E index \in (-MaxNegative) .. MaxSlot :
    \E other \in 0 .. MaxSlot :
    \E spacing \in {DEFAULT_SPACING, TightSpacing} :
        /\ stage = "spiral"
        /\ pc = "input"
        /\ spiral_spacing = spacing
        /\ spiral_index = index
        /\ spiral_other = other
        /\ spiral_position = <<0, 0>>
        /\ spiral_other_position = <<0, 0>>
        /\ actor_ids = {} /\ edges = {}
        /\ actor_i = NoActor /\ actor_j = NoActor /\ delta = 0
        /\ SwapIdle
        /\ TwoOptIdle
        /\ RelaxIdle
        /\ GraphIdle
        /\ ExtraIdle

\* calculate_vogel_position(index, spacing) for the two indices
SpiralPositions ==
    /\ stage = "spiral"
    /\ pc = "input"
    /\ IF VogelRaises(spiral_index)
       THEN /\ pc' = "raised"
            /\ UNCHANGED <<spiral_position, spiral_other_position>>
       ELSE /\ spiral_position' =
                   calculate_vogel_position(spiral_index, spiral_spacing)
            /\ spiral_other_position' =
                   calculate_vogel_position(spiral_other, spiral_spacing)
            /\ pc' = "done"
    /\ UNCHANGED <<stage, spiral_spacing, spiral_index, spiral_other,
                   swapVars, twoOptVars, relaxOnlyVars, graphVars, extraVars>>

(***************************************************************************)
(* optimize-layout.py: the iteration budgets of two_opt_local_search       *)
(***************************************************************************)
Max2(a, b) == IF a >= b THEN a ELSE b
Min2(a, b) == IF a <= b THEN a ELSE b

\* calculate_adaptive_iterations (lines 212-243); the actor count is not used
calculate_adaptive_iterations(edge_count, actor_count) ==
    LET base_iterations == edge_count * ITERATIONS_PER_EDGE
        its == Max2(MIN_ITERATIONS, Min2(CAP_ITERATIONS, base_iterations))
        quality == IF its >= HIGH_QUALITY_FROM THEN "high (99%+ optimal)"
                   ELSE IF its >= GOOD_QUALITY_FROM THEN "good (90-95% optimal)"
                   ELSE "fast (85-90% optimal)"
    IN  [iterations |-> its, quality |-> quality]

\* line 267: max(500, int(max_iterations * 0.05)); int() truncates
DefaultNoImproveLimit(cap) ==
    Max2(MIN_NO_IMPROVE_LIMIT, TDiv(cap * NO_IMPROVE_FRACTION, 1000))

\* the stages that stand alone leave the variables of the optimizers unset
CoreIdle ==
    /\ actor_ids = {} /\ edges = {}
    /\ actor_i = NoActor /\ actor_j = NoActor /\ delta = 0
    /\ SwapIdle /\ TwoOptIdle /\ RelaxIdle /\ GraphIdle /\ SpiralIdle

\* a call of two_opt_local_search with its two optional arguments
BudgetInit ==
    \E k \in 0 .. MaxEdgeSteps :
    \E given_max \in {NoArg, MaxIterationsArg} :
    \E given_limit \in {NoArg, NoImproveLimitArg} :
        /\ stage = "budget"
        /\ pc = "input"
        /\ num_edges = k * EdgeStep
        /\ arg_max_iterations = given_max
        /\ arg_no_improve_limit = given_limit
        /\ budget_max_iterations = 0
        /\ budget_no_improve_limit = 0
        /\ quality_level = Null
        /\ CoreIdle
        /\ ReproIdle
        /\ LoaderIdle
        /\ BfsIdle
        /\ DeltaIdle

\* two_opt_local_search, lines 259-267
ResolveBudgets ==
    /\ stage = "budget"
    /\ pc = "input"
    /\ \E adaptive \in {calculate_adaptive_iterations(num_edges, MaxActors)} :
       \E cap \in {IF arg_max_iterations = NoArg THEN adaptive.iterations
                    ELSE arg_max_iterations} :
          /\ budget_max_iterations' = cap
          /\ quality_level' = IF arg_max_iterations = NoArg THEN adaptive.quality
                               ELSE quality_level
          /\ budget_no_improve_limit' =
                 IF arg_no_improve_limit = NoArg THEN DefaultNoImproveLimit(cap)
                 ELSE arg_no_improve_limit
    /\ pc' = "done"
    /\ UNCHANGED <<stage, num_edges, arg_max_iterations, arg_no_improve_limit,
                   swapVars, twoOptVars, relaxOnlyVars, graphVars, spiralVars,
                   reproVars, loaderVars, bfsVars, deltaVars>>

(***************************************************************************)
(* Two executions of an optimizer on the same input                        *)
(***************************************************************************)
\* The k-th ordered pair of distinct ids of 0 .. n-1: the first id, then one
\* of the n-1 others.
PairOf(k, n) ==
    LET first == (k \div (n - 1)) % n
        rest == k % (n - 1)
    IN  <<first, IF rest >= first THEN rest + 1 ELSE rest>>

\* The generator of module random after random.seed(RANDOM_SEED): its state
\* is a function of the seed alone and every draw advances it by a fixed
\* function.  A linear congruential generator stands for the Mersenne
\* Twister; only this functional dependence is used.
RngSeed(seed) == seed % 16
RngNext(state) == (5 * state + 3) % 16

\* run_swap_optimization after line 157, as a record of its locals
SwapRunStart(input) ==
    [pc |-> "loop",
     rng |-> RngSeed(RANDOM_SEED),
     positions |-> input.initial_positions,
     ordinals |-> input.initial_ordinals,
     total_distance |-> TotalDistance(input.initial_positions, input.edges),
     stagnation_counter |-> 0, iteration |-> 0, swaps_accepted |-> 0,
     draws |-> <<>>, reason |-> Null]

\* one pass through the while body of run_swap_optimization, or its return
SwapRunStep(run, input) ==
    IF run.pc = "done" THEN run
    ELSE IF ~SwapLoopCondition(run.stagnation_counter, run.iteration)
    THEN [run EXCEPT !.pc = "done",
                     !.reason = SwapStoppedReason(run.stagnation_counter)]
    ELSE
        LET state == RngNext(run.rng)
            pair == PairOf(state, input.n)
            r == try_swap(pair[1], pair[2], run.positions, input.adjacency)
            swapped == AcceptSwap(r.positions, run.ordinals, pair[1], pair[2])
        IN  IF SwapAccepts(r.delta)
            THEN [run EXCEPT !.rng = state,
                             !.draws = Append(@, pair),
                             !.iteration = @ + 1,
                             !.positions = swapped.positions,
                             !.ordinals = swapped.ordinals,
                             !.total_distance = @ + r.delta,
                             !.swaps_accepted = @ + 1,
                             !.stagnation_counter = 0]
            ELSE [run EXCEPT !.rng = state,
                             !.draws = Append(@, pair),
                             !.iteration = @ + 1,
                             !.positions = r.positions,
                             !.stagnation_counter = @ + 1]

\* two_opt_local_search after line 283, as a record of its locals
TwoOptRunStart(input) ==
    LET obj == calculate_objective(input.permutation, input.edges, input.distances)
    IN  [pc |-> "loop",
         current_perm |-> input.permutation,
         current_obj |-> obj, best_obj |-> obj,
         iterations |-> 0, no_improve_count |-> 0,
         draws |-> <<>>, reason |-> Null]

\* one pass through the while body of two_opt_local_search with the pair
\* np.random.choice returned, or its return
TwoOptRunStep(run, input, pair) ==
    IF run.pc = "done" THEN run
    ELSE IF ~TwoOptLoopCondition(run.iterations, run.no_improve_count,
                                 input.max_iterations, input.no_improve_limit)
    THEN [run EXCEPT !.pc = "done",
                     !.reason = TwoOptStopReason(run.iterations, input.max_iterations)]
    ELSE
        LET d == TwoOptDelta(run.current_perm, input.edges, input.distances,
                             pair[1], pair[2])
        IN  IF TwoOptAccepts(d)
            THEN [run EXCEPT !.draws = Append(@, pair),
                             !.iterations = @ + 1,
                             !.current_perm = Exchange(@, pair[1], pair[2]),
                             !.current_obj = @ + d,
                             !.no_improve_count = 0,
                             !.best_obj = IF run.current_obj + d < @
                                          THEN run.current_obj + d ELSE @]
            ELSE [run EXCEPT !.draws = Append(@, pair),
                             !.iterations = @ + 1,
                             !.no_improve_count = @ + 1]

\* both executions get the same graph and the same initial assignment
ReproInit ==
    \E n \in {MaxActors} :
    \E es \in SUBSET CanonicalPairs(n) :
    \E prog \in {"03-swap-optimization", "optimize-layout"} :
    \E input \in {IF prog = "03-swap-optimization"
                  THEN [n |-> n, edges |-> es,
                        initial_ordinals |-> InitialOrdinals(n),
                        initial_positions |->
                            [a \in ActorIds(n) |->
                                calculate_vogel_position(InitialOrdinals(n)[a],
                                                         SwapSpacing)],
                        adjacency |-> build_adjacency(es)]
                  ELSE [n |-> n, edges |-> es,
                        permutation |-> InitialOrdinals(n),
                        distances |-> precompute_distances(n, SPACING),
                        max_iterations |-> MaxIterationsArg - 1,
                        no_improve_limit |-> NoImproveLimitArg]} :
        /\ stage = "repro"
        /\ pc = "loop"
        /\ repro_program = prog
        /\ repro_input = input
        /\ run_a = (IF prog = "03-swap-optimization" THEN SwapRunStart(input)
                    ELSE TwoOptRunStart(input))
        /\ run_b = run_a
        /\ CoreIdle
        /\ BudgetIdle
        /\ LoaderIdle
        /\ BfsIdle
        /\ DeltaIdle

\* each execution that has not returned takes its next step.  03-swap-
\* optimization.py draws from the generator it seeded at line 134;
\* optimize-layout.py draws from numpy's global generator, which no line of
\* the program seeds, so its draws are any pairs.
ReproStep ==
    /\ stage = "repro"
    /\ pc = "loop"
    /\ IF repro_program = "03-swap-optimization"
       THEN /\ run_a' = SwapRunStep(run_a, repro_input)
            /\ run_b' = SwapRunStep(run_b, repro_input)
       ELSE \E ka, kb \in 0 .. (repro_input.n * (repro_input.n - 1) - 1) :
               /\ run_a' = TwoOptRunStep(run_a, repro_input,
                                         PairOf(ka, repro_input.n))
               /\ run_b' = TwoOptRunStep(run_b, repro_input,
                                         PairOf(kb, repro_input.n))
    /\ pc' = IF run_a'.pc = "done" /\ run_b'.pc = "done" THEN "done" ELSE "loop"
    /\ UNCHANGED <<stage, repro_program, repro_input, swapVars, twoOptVars,
                   relaxOnlyVars, graphVars, spiralVars, budgetVars, loaderVars,
                   bfsVars, deltaVars>>

ReproSpec == ReproInit /\ [][ReproStep]_vars

(***************************************************************************)
(* Reading a permutation file: generate-optimized-layout.py, relax-layout.py *)
(***************************************************************************)
\* all lists over S of a length from lo to hi
ListsOver(S, lo, hi) == UNION {[1 .. len -> S] : len \in lo .. hi}

\* set(permutation)
Elements(perm) == {perm[k] : k \in 1 .. Len(perm)}

\* an index of a Python / numpy sequence of n rows: negative ones count from
\* the end, anything outside -n .. n-1 raises IndexError
IndexInRange(p, n) == p >= -n /\ p < n
WrapIndex(p, n) == IF p < 0 THEN p + n ELSE p

\* generate-optimized-layout.py main, lines 176-186: the two checks
GenerateAccepts(perm, n) ==
    /\ Len(perm) = n
    /\ Elements(perm) = 0 .. (n - 1)

\* a permutation file next to an input of n actors
LoaderInit ==
    \E n \in 2 .. MaxActors :
    \E perm \in ListsOver((-1) .. n, n - 1, n + 1) :
    \E prog \in {"generate-optimized-layout", "relax-layout"} :
        /\ stage = "loader"
        /\ pc = "input"
        /\ loader_program = prog
        /\ num_actors = n
        /\ supplied_permutation = perm
        /\ layout_slots = <<>>
        /\ layout_source = Null
        /\ CoreIdle
        /\ BudgetIdle
        /\ ReproIdle
        /\ BfsIdle
        /\ DeltaIdle

\* generate-optimized-layout.py main (lines 172-189) with
\* generate_optimized_layout (lines 75-92)
GenerateLayout ==
    /\ stage = "loader"
    /\ pc = "input"
    /\ loader_program = "generate-optimized-layout"
    /\ IF GenerateAccepts(supplied_permutation, num_actors)
       THEN /\ layout_slots' = supplied_permutation
            /\ layout_source' = "permutation"
            /\ pc' = "done"
       ELSE /\ pc' = "raised"
            /\ UNCHANGED <<layout_slots, layout_source>>
    /\ UNCHANGED <<stage, loader_program, num_actors, supplied_permutation,
                   swapVars, twoOptVars, relaxOnlyVars, graphVars, spiralVars,
                   budgetVars, reproVars, bfsVars, deltaVars>>

\* relax-layout.py main, lines 291-303
RelaxLoadPermutation ==
    /\ stage = "loader"
    /\ pc = "input"
    /\ loader_program = "relax-layout"
    /\ IF Len(supplied_permutation) = num_actors
       THEN IF \A k \in 1 .. num_actors :
                  IndexInRange(supplied_permutation[k], num_actors)
            THEN /\ layout_slots' =
                        [k \in 1 .. num_actors |->
                            WrapIndex(supplied_permutation[k], num_actors)]
                 /\ layout_source' = "permutation"
                 /\ pc' = "done"
            ELSE /\ pc' = "raised"
                 /\ UNCHANGED <<layout_slots, layout_source>>
       ELSE /\ layout_slots' = [k \in 1 .. num_actors |-> k - 1]
            /\ layout_source' = "base"
            /\ pc' = "done"
    /\ UNCHANGED <<stage, loader_program, num_actors, supplied_permutation,
                   swapVars, twoOptVars, relaxOnlyVars, graphVars, spiralVars,
                   budgetVars, reproVars, bfsVars, deltaVars>>

LoaderNext == GenerateLayout \/ RelaxLoadPermutation

LoaderSpec == LoaderInit /\ [][LoaderNext]_vars

(***************************************************************************)
(* 04-shortest-paths.py                                                    *)
(***************************************************************************)
\* the edge rows of the graph file: the pairs of es in row-major order
RECURSIVE EdgeRowsFrom(_, _, _)
EdgeRowsFrom(es, n, k) ==
    IF k >= n * n THEN <<>>
    ELSE LET e == <<k \div n, k % n>>
         IN  IF e \in es THEN <<e>> \o EdgeRowsFrom(es, n, k + 1)
             ELSE EdgeRowsFrom(es, n, k + 1)

EdgeRows(es, n) == EdgeRowsFrom(es, n, 0)

\* load_graph, lines 59-64: every row whose two ends are actors is appended
\* to both lists, a row (s, s) twice to the list of s
RECURSIVE load_graph(_, _)
load_graph(ids, rows) ==
    IF rows = <<>> THEN [pid \in ids |-> <<>>]
    ELSE LET before == load_graph(ids, SubSeq(rows, 1, Len(rows) - 1))
             s == rows[Len(rows)][1]
             t == rows[Len(rows)][2]
             with_t == [before EXCEPT ![s] = Append(@, t)]
         IN  IF s \in ids /\ t \in ids
             THEN [with_t EXCEPT ![t] = Append(@, s)]
             ELSE before

\* faulty variant: the distance of a neighbour is written even when it has one
VisitNeighborOverwrite(st, neighbor, d) ==
    IF neighbor \in DOMAIN st.dist
    THEN [st EXCEPT !.dist = [@ EXCEPT ![neighbor] = d + 1]]
    ELSE [dist |-> [v \in DOMAIN st.dist \cup {neighbor} |->
                        IF v = neighbor THEN d + 1 ELSE st.dist[v]],
          queue |-> Append(st.queue, neighbor)]

\* bfs_distances, lines 80-82: the body of the for loop
VisitNeighbor(st, neighbor, d) ==
    IF neighbor \in DOMAIN st.dist
    THEN st
    ELSE [dist |-> [v \in DOMAIN st.dist \cup {neighbor} |->
                        IF v = neighbor THEN d + 1 ELSE st.dist[v]],
          queue |-> Append(st.queue, neighbor)]

\* bfs_distances, line 79: the for loop over the first k neighbours
RECURSIVE VisitNeighbors(_, _, _, _)
VisitNeighbors(st, neighbors, d, k) ==
    IF k = 0 THEN st
    ELSE VisitNeighbor(VisitNeighbors(st, neighbors, d, k - 1), neighbors[k], d)

\* main up to the call of bfs_distances and its lines 74-75
BfsInit ==
    \E n \in 2 .. BfsNodes :
    \E es \in {g \in SUBSET {e \in ActorIds(n) \X ActorIds(n) : e[1] <= e[2]} :
                  Cardinality(g) <= BfsEdges} :
    \E pid \in ActorIds(n) :
        /\ stage = "bfs"
        /\ pc = "loop"
        /\ adj = load_graph(ActorIds(n), EdgeRows(es, n))
        /\ source = pid
        /\ dist = [v \in {pid} |-> 0]
        /\ queue = <<pid>>
        /\ full_distances = <<>>
        /\ reachable = 0
        /\ unreachable = 0
        /\ CoreIdle
        /\ BudgetIdle
        /\ ReproIdle
        /\ LoaderIdle
        /\ DeltaIdle

\* bfs_distances, lines 76-82: one pass through the while body
BfsVisit ==
    /\ stage = "bfs"
    /\ pc = "loop"
    /\ queue # <<>>
    /\ \E node \in {Head(queue)} :
       \E st \in {VisitNeighbors([dist |-> dist, queue |-> Tail(queue)],
                                 adj[node], dist[node], Len(adj[node]))} :
          /\ dist' = st.dist
          /\ queue' = st.queue
    /\ UNCHANGED <<stage, pc, adj, source, full_distances, reachable, unreachable,
                   swapVars, twoOptVars, relaxOnlyVars, graphVars, spiralVars,
                   budgetVars, reproVars, loaderVars, deltaVars>>

\* bfs_distances returns (line 83) and main fills its report (lines 137-146)
BfsReport ==
    /\ stage = "bfs"
    /\ pc = "loop"
    /\ queue = <<>>
    /\ full_distances' = [other \in DOMAIN adj \ {source} |->
                              IF other \in DOMAIN dist THEN dist[other]
                              ELSE NoDistance]
    /\ reachable' = Cardinality(DOMAIN dist) - 1
    /\ unreachable' = Cardinality(DOMAIN adj) - Cardinality(DOMAIN dist)
    /\ pc' = "done"
    /\ UNCHANGED <<stage, adj, source, dist, queue,
                   swapVars, twoOptVars, relaxOnlyVars, graphVars, spiralVars,
                   budgetVars, reproVars, loaderVars, deltaVars>>

BfsNext == BfsVisit \/ BfsReport

BfsSpec == BfsInit /\ [][BfsNext]_vars

(***************************************************************************)
(* The star scenario: 02-centrality-ordering.py and 03-swap-optimization.py *)
(* on one centre with five leaves                                          *)
(***************************************************************************)
StarIds == 0 .. 5

\* the actors that are the centre in the runs: the first and the fifth of
\* the list
StarCentres == {0, 4}

\* the star with centre c, as deduplicate_edges returns it
StarEdges(c) == {IF leaf < c THEN <<leaf, c>> ELSE <<c, leaf>> : leaf \in StarIds \ {c}}

\* every assignment of the six slots to the six actors
Orderings(ids) == {f \in [ids -> ids] : \A a, b \in ids : f[a] = f[b] => a = b}

\* What random.sample(actor_ids, 2) returns, call after call, once
\* random.seed(42) has run (line 134) and actor_ids has six entries: the
\* positions in actor_ids of the two actors drawn.
StarDraws ==
    <<<<5, 0>>, <<0, 2>>, <<1, 5>>, <<1, 0>>, <<5, 4>>, <<0, 4>>, <<3, 0>>, <<0, 5>>,
      <<1, 5>>, <<4, 5>>, <<0, 4>>, <<1, 4>>, <<3, 1>>, <<3, 4>>, <<2, 0>>, <<1, 3>>,
      <<2, 5>>, <<1, 5>>, <<2, 0>>, <<0, 3>>, <<0, 2>>, <<2, 4>>, <<2, 0>>, <<5, 3>>,
      <<4, 0>>, <<3, 0>>, <<4, 2>>, <<5, 4>>, <<2, 4>>, <<1, 0>>, <<0, 1>>, <<2, 0>>,
      <<1, 0>>, <<3, 2>>, <<3, 2>>, <<1, 2>>, <<2, 1>>, <<5, 2>>, <<5, 0>>, <<4, 1>>,
      <<4, 1>>, <<1, 3>>, <<3, 2>>, <<5, 4>>, <<1, 2>>, <<0, 1>>, <<0, 2>>, <<3, 2>>,
      <<0, 1>>, <<4, 2>>, <<1, 3>>, <<3, 5>>, <<1, 2>>, <<1, 5>>, <<5, 4>>, <<4, 2>>,
      <<5, 4>>, <<3, 4>>, <<3, 2>>, <<1, 5>>, <<4, 3>>, <<0, 5>>, <<0, 1>>, <<5, 1>>,
      <<5, 3>>, <<4, 0>>, <<3, 5>>, <<4, 3>>, <<4, 2>>, <<4, 0>>, <<5, 0>>, <<5, 4>>,
      <<2, 5>>, <<0, 2>>, <<3, 1>>, <<3, 0>>, <<5, 2>>, <<4, 1>>, <<4, 0>>, <<5, 2>>>>

\* The while condition with the threshold and the cap of the scenario.  A
\* run with the 1,000 and 50,000 of the script draws the same pairs and takes
\* the same decisions for as long as this one runs.
StarLoopCondition(stagnation, iter) ==
    stagnation < StarStagnation /\ iter < StarIterations

\* 02-centrality-ordering.py main (lines 83-96) on the star, then
\* run_swap_optimization up to the loop head from an arbitrary ordering
StarInit ==
    \E c \in StarCentres :
    \E ord \in Orderings(StarIds) :
    \E es \in {StarEdges(c)} :
    \E degrees \in {calculate_degrees(es, StarIds)} :
        /\ stage = "star"
        /\ pc = "loop"
        /\ actor_ids = StarIds
        /\ edges = es
        /\ degree = degrees
        /\ slot = AssignOrdinals(Cardinality(StarIds), degrees)
        /\ connections = Null
        /\ program = Null
        /\ initial_ordinals = ord
        /\ initial_positions =
               [a \in StarIds |-> calculate_vogel_position(ord[a], DEFAULT_SPACING)]
        /\ positions = initial_positions
        /\ ordinals = initial_ordinals
        /\ adjacency = build_adjacency(es)
        /\ total_distance = TotalDistance(initial_positions, es)
        /\ stagnation_counter = 0
        /\ iteration = 0
        /\ swaps_accepted = 0
        /\ actor_i = NoActor
        /\ actor_j = NoActor
        /\ delta = 0
        /\ stopped_reason = Null
        /\ TwoOptIdle
        /\ RelaxIdle
        /\ SpiralIdle
        /\ ExtraIdle

\* one pass through the while body (lines 159-181) with the pair the seeded
\* generator returns at this call
StarTrial ==
    /\ stage = "star"
    /\ pc = "loop"
    /\ StarLoopCondition(stagnation_counter, iteration)
    /\ \E a_i \in {StarDraws[iteration + 1][1]} :
       \E a_j \in {StarDraws[iteration + 1][2]} :
       \E r \in {try_swap(a_i, a_j, positions, adjacency)} :
           /\ actor_i' = a_i
           /\ actor_j' = a_j
           /\ delta' = r.delta
           /\ iteration' = iteration + 1
           /\ IF SwapAccepts(r.delta)
              THEN /\ \E swapped \in {AcceptSwap(r.positions, ordinals, a_i, a_j)} :
                        /\ positions' = swapped.positions
                        /\ ordinals' = swapped.ordinals
                   /\ total_distance' = total_distance + r.delta
                   /\ swaps_accepted' = swaps_accepted + 1
                   /\ stagnation_counter' = 0
              ELSE /\ positions' = r.positions
                   /\ stagnation_counter' = stagnation_counter + 1
                   /\ UNCHANGED <<ordinals, total_distance, swaps_accepted>>
    /\ UNCHANGED <<stage, pc, actor_ids, edges, initial_positions, initial_ordinals,
                   adjacency, stopped_reason, twoOptVars, relaxOnlyVars, graphVars,
                   spiralVars, extraVars>>

\* loop exit and return (lines 183-194)
StarReturn ==
    /\ stage = "star"
    /\ pc = "loop"
    /\ ~StarLoopCondition(stagnation_counter, iteration)
    /\ stopped_reason' = (IF stagnation_counter >= StarStagnation THEN "stagnation"
                          ELSE "max_iterations")
    /\ pc' = "done"
    /\ UNCHANGED <<stage, actor_ids, edges, initial_positions, initial_ordinals,
                   positions, ordinals, adjacency, total_distance, stagnation_counter,
                   iteration, swaps_accepted, actor_i, actor_j, delta, twoOptVars,
                   relaxOnlyVars, graphVars, spiralVars, extraVars>>

StarNext == StarTrial \/ StarReturn

StarSpec == StarInit /\ [][StarNext]_vars

(***************************************************************************)
(* The two delta evaluations on one input                                  *)
(***************************************************************************)
Geometries == {"optimization_utils", "optimize-layout"}

\* the coordinate of a slot: calculate_vogel_position of the module named
SlotPosition(geometry, index) ==
    IF geometry = "optimization_utils"
    THEN calculate_vogel_position(index, DEFAULT_SPACING)
    ELSE layout_calculate_vogel_position(index, SPACING)

\* the coordinates of the slots 0 .. MaxActors-1, computed once
SlotTable ==
    [geometry \in Geometries |->
        [index \in 0 .. (MaxActors - 1) |-> SlotPosition(geometry, index)]]

\* the distances between them, computed once
SlotDistances ==
    [geometry \in Geometries |->
        [p \in 0 .. (MaxActors - 1) |->
            [q \in 0 .. (MaxActors - 1) |->
                Dist(SlotTable[geometry][p], SlotTable[geometry][q])]]]

\* the positions dict of 03-swap-optimization.py for a slot assignment
PositionsOf(geometry, perm) == [a \in DOMAIN perm |-> SlotTable[geometry][perm[a]]]

\* the distance matrix of precompute_distances over the same coordinates
DistancesOf(geometry, n) ==
    [p \in 0 .. (n - 1) |-> [q \in 0 .. (n - 1) |-> SlotDistances[geometry][p][q]]]

OrderedPairs(ids) == {pair \in ids \X ids : pair[1] # pair[2]}

\* a deduplicated edge set, self-pairs included (deduplicate_edges keeps
\* them), and a slot assignment
DeltaInit ==
    \E n \in 2 .. MaxActors :
    \E es \in {g \in SUBSET {e \in ActorIds(n) \X ActorIds(n) : e[1] <= e[2]} :
                  Cardinality(g) <= DeltaEdges} :
    \E perm \in Orderings(ActorIds(n)) :
        /\ stage = "delta"
        /\ pc = "input"
        /\ trial_input = [n |-> n, edges |-> es, perm |-> perm]
        /\ swap_deltas = <<>>
        /\ scan_deltas = <<>>
        /\ CoreIdle
        /\ BudgetIdle
        /\ ReproIdle
        /\ LoaderIdle
        /\ BfsIdle

\* try_swap (03-swap-optimization.py lines 75-117) and lines 291-313 of
\* two_opt_local_search for every pair of distinct actors
EvaluateDeltas ==
    /\ stage = "delta"
    /\ pc = "input"
    /\ \E adjacent \in {build_adjacency(trial_input.edges)} :
          /\ swap_deltas' =
                [g \in Geometries |->
                    [pair \in OrderedPairs(ActorIds(trial_input.n)) |->
                        try_swap(pair[1], pair[2],
                                 PositionsOf(g, trial_input.perm), adjacent).delta]]
          /\ scan_deltas' =
                [g \in Geometries |->
                    [pair \in OrderedPairs(ActorIds(trial_input.n)) |->
                        TwoOptDelta(trial_input.perm, trial_input.edges,
                                    DistancesOf(g, trial_input.n), pair[1], pair[2])]]
    /\ pc' = "done"
    /\ UNCHANGED <<stage, trial_input, swapVars, twoOptVars, relaxOnlyVars,
                   graphVars, spiralVars, budgetVars, reproVars, loaderVars, bfsVars>>

DeltaSpec == DeltaInit /\ [][EvaluateDeltas]_vars

Init ==
    \/ SwapInit \/ TwoOptInit \/ RelaxInit \/ RelaxLayoutInit \/ GraphInit
    \/ SpiralInit \/ BudgetInit

Next ==
    \/ SwapIteration \/ SwapReturn
    \/ TwoOptIteration \/ TwoOptReturn
    \/ RelaxIteration \/ RelaxReturn
    \/ RelaxLayoutIteration \/ RelaxLayoutReturn
    \/ CentralityOrdering \/ BuildGraph
    \/ SpiralPositions
    \/ ResolveBudgets

Spec == Init /\ [][Next]_vars

\* the loops have no blocking step: a trial or the return is always taken
FairSpec == Spec /\ WF_vars(Next)

\* the runs of the two force relaxers on their own
RelaxerInit == RelaxInit \/ RelaxLayoutInit

RelaxerNext ==
    \/ RelaxIteration \/ RelaxReturn
    \/ RelaxLayoutIteration \/ RelaxLayoutReturn

\* the for loop has no blocking step: an iteration or the return is always taken
RelaxerFairSpec == RelaxerInit /\ [][RelaxerNext]_vars /\ WF_vars(RelaxerNext)

(***************************************************************************)
(* Properties                                                              *)
(***************************************************************************)
IsBijection(f, S) == DOMAIN f = S /\ {f[a] : a \in S} = S

InSwap == stage = "swap"
InTwoOpt == stage = "two_opt"
InRelax == stage = "relax"
InRelaxLayout == stage = "relax_layout"
InSpiral == stage = "spiral"
InBudget == stage = "budget"
InRepro == stage = "repro"
InLoader == stage = "loader"
InBfs == stage = "bfs"
InStar == stage = "star"
InDelta == stage = "delta"

\* a trial of run_swap_optimization / two_opt_local_search has just been taken
SwapTrialStep == InSwap /\ iteration' = iteration + 1
TwoOptTrialStep == InTwoOpt /\ iterations' = iterations + 1

\* total edge length if a and b exchanged coordinates, minus the total now
TrueDelta(pos, es, a, b) == TotalDistance(Exchange(pos, a, b), es) - TotalDistance(pos, es)

\* C1: the slot assignment of the swap optimizer (ordinals in
\* run_swap_optimization, current_perm in two_opt_local_search) is a bijection
\* onto 0..n-1 at every iteration boundary and on return.
C1_Bijection ==
    /\ InSwap => IsBijection(initial_ordinals, actor_ids) /\ IsBijection(ordinals, actor_ids)
    /\ InTwoOpt => IsBijection(permutation, actor_ids) /\ IsBijection(current_perm, actor_ids)

C1_Witness ==
    /\ InSwap /\ pc = "done" /\ swaps_accepted >= 1
    /\ ordinals # initial_ordinals

\* C2: at every iteration boundary of run_swap_optimization (so after every
\* accepted step) the running accumulator equals the total edge length
\* recomputed from scratch under the current positions; likewise current_obj
\* in two_opt_local_search.
C2_Accumulator ==
    /\ InSwap => total_distance = TotalDistance(positions, edges)
    /\ InTwoOpt => current_obj = calculate_objective(current_perm, edges, distances)

C2_Witness ==
    /\ InSwap /\ swaps_accepted >= 1 /\ stagnation_counter = 0
    /\ total_distance < TotalDistance(initial_positions, edges)

\* the coordinate assignments that place the actors on the input coordinates
\* in every possible order
Placements ==
    {[a \in actor_ids |-> initial_positions[q[a]]] :
        q \in {f \in [actor_ids -> actor_ids] : IsBijection(f, actor_ids)}}

\* C3: for every pair of distinct nodes and every placement of the nodes
\* (all of them at the start of a run, the current one afterwards),
\* try_swap returns exactly the total edge length with the two coordinates
\* exchanged minus the total edge length now, also when the two nodes are
\* connected and when they have common neighbours.
C3_DeltaExact ==
    InSwap =>
        \A pos \in (IF iteration = 0 THEN Placements ELSE {positions}) :
            \A a, b \in actor_ids :
                a # b => try_swap(a, b, pos, adjacency).delta = TrueDelta(pos, edges, a, b)

\* a trial on two connected nodes with a common neighbour
C3_Witness ==
    /\ InSwap /\ iteration >= 1
    /\ actor_i \in DOMAIN adjacency /\ actor_j \in adjacency[actor_i]
    /\ adjacency[actor_i] \cap adjacency[actor_j] # {}
    /\ delta = TrueDelta(positions, edges, actor_i, actor_j)

\* C4: a trial accepts iff delta < -epsilon (delta being the change of the
\* total edge length the exchange would make); on acceptance slots and
\* coordinates of i and j are exchanged and delta is added to the running
\* total, on rejection slots, coordinates and running total are unchanged.
C4_AcceptRule ==
    [][ /\ SwapTrialStep =>
            LET d == TrueDelta(positions, edges, actor_i', actor_j')
            IN  /\ delta' = d
                /\ (swaps_accepted' = swaps_accepted + 1) <=> (d < -SWAP_EPSILON)
                /\ IF d < -SWAP_EPSILON
                   THEN /\ ordinals' = Exchange(ordinals, actor_i', actor_j')
                        /\ positions' = Exchange(positions, actor_i', actor_j')
                        /\ total_distance' = total_distance + d
                   ELSE /\ ordinals' = ordinals
                        /\ positions' = positions
                        /\ total_distance' = total_distance
                        /\ swaps_accepted' = swaps_accepted
        /\ TwoOptTrialStep =>
            LET d == calculate_objective(Exchange(current_perm, actor_i', actor_j'),
                                         edges, distances)
                     - calculate_objective(current_perm, edges, distances)
            IN  /\ delta' = d
                /\ IF d < -TWO_OPT_EPSILON
                   THEN /\ current_perm' = Exchange(current_perm, actor_i', actor_j')
                        /\ current_obj' = current_obj + d
                   ELSE /\ current_perm' = current_perm
                        /\ current_obj' = current_obj
      ]_vars

\* a trial whose delta was negative but not below -epsilon, and was rejected
C4_Witness ==
    /\ InSwap /\ stagnation_counter >= 1
    /\ delta < 0 /\ delta >= -SWAP_EPSILON
    /\ positions = initial_positions

\* C5: the loop of the swap optimizer terminates; it never runs more trials
\* than the cap, it has returned only if the stagnation counter has reached
\* its threshold or the iteration count the cap, and no trial is run from an
\* iteration boundary at which one of the two holds.
C5_Terminates ==
    /\ [](InSwap => /\ iteration <= MAX_ITERATIONS
                    /\ pc = "done" => \/ stagnation_counter >= STAGNATION_THRESHOLD
                                      \/ iteration >= MAX_ITERATIONS)
    /\ [](InTwoOpt => /\ iterations <= max_iterations
                      /\ pc = "done" => \/ no_improve_count >= no_improve_limit
                                        \/ iterations >= max_iterations)
    /\ [][ /\ SwapTrialStep => /\ stagnation_counter < STAGNATION_THRESHOLD
                               /\ iteration < MAX_ITERATIONS
           /\ TwoOptTrialStep => /\ no_improve_count < no_improve_limit
                                 /\ iterations < max_iterations ]_vars
    /\ (InSwap \/ InTwoOpt) => <>(pc = "done")

\* a run stopped by the cap alone
C5_Witness ==
    /\ InSwap /\ pc = "done"
    /\ iteration = MAX_ITERATIONS /\ stagnation_counter < STAGNATION_THRESHOLD

\* C6 (as claimed): the reported reason is the stagnation (early-stop) reason
\* exactly when the consecutive-non-improvement counter has reached its limit
\* at loop exit, for run_swap_optimization and two_opt_local_search alike.
C6_StopReason ==
    pc = "done" =>
        /\ InSwap =>
            /\ stopped_reason = "stagnation"
                    <=> stagnation_counter >= STAGNATION_THRESHOLD
            /\ stopped_reason = "max_iterations"
                    => iteration >= MAX_ITERATIONS /\ stagnation_counter < STAGNATION_THRESHOLD
        /\ InTwoOpt =>
            /\ stop_reason = "early_stop" <=> no_improve_count >= no_improve_limit
            /\ stop_reason = "max_iterations"
                    => iterations >= max_iterations /\ no_improve_count < no_improve_limit

\* C7: the total edge length never increases in run_swap_optimization: an
\* accepted swap lowers it by more than epsilon, a rejected trial leaves it
\* unchanged, and the layout held at any time is no longer than the input.
C7_NeverIncreases ==
    /\ [](InSwap => TotalDistance(positions, edges) <= TotalDistance(initial_positions, edges))
    /\ [][InSwap =>
            /\ TotalDistance(positions', edges) <= TotalDistance(positions, edges)
            /\ swaps_accepted' # swaps_accepted =>
                  TotalDistance(positions', edges) < TotalDistance(positions, edges) - SWAP_EPSILON
            /\ swaps_accepted' = swaps_accepted =>
                  TotalDistance(positions', edges) = TotalDistance(positions, edges) ]_vars

C7_Witness ==
    /\ InSwap /\ pc = "done" /\ swaps_accepted >= 1 /\ stagnation_counter >= 1
    /\ TotalDistance(positions, edges) < TotalDistance(initial_positions, edges)

\* C8: the accepted-swap update is self-inverse: applied twice to the same
\* pair it gives back the slot assignment and the coordinates it started from.
C8_SelfInverse ==
    InSwap =>
        \A a, b \in actor_ids :
            a # b =>
                LET once == AcceptSwap(positions, ordinals, a, b)
                    twice == AcceptSwap(once.positions, once.ordinals, a, b)
                IN  /\ twice.positions = positions
                    /\ twice.ordinals = ordinals

\* after one accepted swap, the same update once more restores the input
C8_Witness ==
    /\ InSwap /\ swaps_accepted = 1 /\ stagnation_counter = 0
    /\ ordinals # initial_ordinals /\ positions # initial_positions
    /\ AcceptSwap(positions, ordinals, actor_i, actor_j)
         = [positions |-> initial_positions, ordinals |-> initial_ordinals]

\* the 2-node graph with one edge
TwoNodeOneEdge == InSwap /\ actor_ids = {0, 1} /\ edges = {<<0, 1>>}

\* C9 (as claimed): on the 2-node graph with one edge run_swap_optimization
\* terminates immediately, on the very first trial, with no swap accepted and
\* the stagnation reason, within the cap.
C9_Immediate ==
    (TwoNodeOneEdge /\ pc = "done") =>
        /\ iteration = 1
        /\ swaps_accepted = 0
        /\ stopped_reason = "stagnation"
        /\ iteration <= MAX_ITERATIONS

\* C9 (amended): on the 2-node graph with one edge every trial is rejected,
\* from the first on, the layout is never changed, and the run stops after
\* exactly STAGNATION_THRESHOLD trials with the stagnation reason, within the cap.
C9_StagnatesFromFirstTrial ==
    TwoNodeOneEdge =>
        /\ swaps_accepted = 0
        /\ stagnation_counter = iteration
        /\ iteration <= MAX_ITERATIONS
        /\ positions = initial_positions /\ ordinals = initial_ordinals
        /\ pc = "done" => /\ iteration = STAGNATION_THRESHOLD
                          /\ stopped_reason = "stagnation"

C9_Witness == TwoNodeOneEdge /\ pc = "done" /\ iteration > 1

\* C10 (as claimed): with an empty edge set run_swap_optimization and
\* run_force_relaxation each perform zero iterations and return their input
\* layout.
C10_StagesSkipped ==
    ((InSwap \/ InRelax) /\ edges = {} /\ pc # "loop") =>
        /\ pc = "done"
        /\ iteration = 0
        /\ positions = initial_positions

\* C11 (as claimed): an empty edge set is never an error: calculate_metrics
\* gives the all-zero record, and run_force_relaxation runs to completion and
\* returns without raising.
C11_EmptyNeverRaises ==
    (InRelax /\ edges = {}) =>
        /\ calculate_metrics(positions, edges)
             = [edge_count |-> 0, total_distance |-> 0, avg_distance |-> 0,
                min_distance |-> 0, max_distance |-> 0]
        /\ pc # "raised"

InGraph == stage = "graph"

\* the built edge set, stated without the loop: the canonical pair of every
\* observed row whose two endpoints are loaded actors
ObservedCanonicalPairs ==
    {<<a, b>> \in actor_ids \X actor_ids :
        /\ a <= b
        /\ \E k \in DOMAIN connections :
               connections[k] = <<a, b>> \/ connections[k] = <<b, a>>}

\* C12: the built edge set holds exactly one canonical (min, max) pair for each
\* unordered pair observed with both endpoints in the node set, however often
\* and in whichever direction it was observed, and no pair with an endpoint
\* outside the node set
C12_CanonicalEdges ==
    (InGraph /\ pc = "done") =>
        /\ edges = ObservedCanonicalPairs
        /\ \A e \in edges : e[1] \in actor_ids /\ e[2] \in actor_ids /\ e[1] <= e[2]
        /\ \A e \in edges : e[1] # e[2] => <<e[2], e[1]>> \notin edges

\* a pair observed in both directions next to a row naming an unknown actor
C12_Witness ==
    /\ InGraph /\ pc = "done"
    /\ Cardinality(actor_ids) = MaxActors - 1
    /\ \E j, k \in DOMAIN connections :
           /\ connections[j][1] < connections[j][2]
           /\ connections[k] = <<connections[j][2], connections[j][1]>>
           /\ connections[j][2] \in actor_ids
    /\ Cardinality(edges) = 1

\* C12, second witness: a row with an endpoint outside the node set is dropped
C12_WitnessOutside ==
    /\ InGraph /\ pc = "done"
    /\ \E k \in DOMAIN connections : connections[k][2] \notin actor_ids
    /\ \E k \in DOMAIN connections : connections[k][1] > connections[k][2]
                                       /\ connections[k][1] \in actor_ids
    /\ edges # {}

\* the adjacency set of an actor; step 3's dict has no key for an isolated actor
Neighbours(a) == IF a \in DOMAIN adjacency THEN adjacency[a] ELSE {}

\* C13 (as claimed): self-pairs are dropped: for every raw row (a, a) the built edge set
\* holds no edge (a, a) and a is not a member of its own adjacency set
C13_SelfPairsDropped ==
    (InGraph /\ pc = "done") =>
        \A a \in actor_ids :
            (\E k \in DOMAIN connections : connections[k] = <<a, a>>) =>
                /\ <<a, a>> \notin edges
                /\ a \notin Neighbours(a)

\* C14 (as claimed): the degree computed for a node is the number of distinct nodes
\* adjacent to it, the size of its adjacency set, whatever rows were
\* repeated or reversed
C14_DegreeIsAdjacencySize ==
    (InGraph /\ pc = "done") =>
        \A a \in actor_ids : degree[a] = Cardinality(Neighbours(a))

\* C15 (as claimed): degree-centrality ordering gives slots 0, 1, 2, ... in order of
\* descending degree, nodes of equal degree in input order: slot(u) < slot(v)
\* iff degree(u) > degree(v), or the degrees are equal and u precedes v; the
\* slots are a bijection onto 0 .. n-1
C15_DegreeOrdering ==
    (InGraph /\ pc = "done") =>
        /\ \A u, v \in actor_ids :
               (slot[u] < slot[v]) <=>
                   \/ degree[u] > degree[v]
                   \/ degree[u] = degree[v] /\ u < v
        /\ IsBijection(slot, actor_ids)

\* either force relaxer: run_force_relaxation or relax_layout
InRelaxer == InRelax \/ InRelaxLayout

\* a is u scaled by a positive factor, up to the rounding of a's components
SameDirection(u, a) ==
    /\ u[1] * a[1] >= 0
    /\ u[2] * a[2] >= 0
    /\ u[1] * a[1] + u[2] * a[2] > 0
    /\ Abs(u[1] * a[2] - u[2] * a[1]) <= Abs(u[1]) + Abs(u[2])

\* the displacement of a node over one step of the relaxer
Displacement(aid) ==
    <<positions'[aid][1] - positions[aid][1], positions'[aid][2] - positions[aid][2]>>

\* C16: in every iteration of the force relaxer and for every node, the
\* displacement applied to the node's coordinate is no longer than the max
\* step, and a step that exceeded the max step is applied in its own direction
C16_StepCapped ==
    [][(InRelaxer /\ iteration' = iteration + 1) =>
          \A aid \in actor_ids :
              /\ Root2(Displacement(aid)[1], Displacement(aid)[2]) <= max_step
              /\ Root2(raw_steps'[aid][1], raw_steps'[aid][2]) > max_step =>
                     SameDirection(raw_steps'[aid], Displacement(aid))]_vars

\* an iteration in which the step of some node was cut down to the max step
C16_Witness ==
    /\ InRelaxer /\ iteration >= 1
    /\ \E aid \in actor_ids :
           /\ Root2(raw_steps[aid][1], raw_steps[aid][2]) > max_step
           /\ raw_steps[aid][1] # 0 /\ raw_steps[aid][2] # 0

\* the objective the relaxer of this run minimises
StageObjective(pos) ==
    IF InRelaxLayout THEN objective(pos, edges, weights) ELSE RelaxObjective(pos, edges)

\* the relative improvement from one objective to the next is below the threshold
BelowThreshold(before, after) ==
    IF before > 0 THEN (before - after) * 1000 < IMPROVEMENT_THRESHOLD * before
    ELSE TRUE

\* C17: the no-improvement counter goes up by one after an iteration whose
\* relative improvement over the previous iteration's objective is below the
\* threshold and back to zero after any other; an iteration is run only while
\* the counter is below the patience limit and the iteration count below the
\* cap, and the loop is left only with one of the two reached; so the counter
\* never exceeds the number of iterations run, a counter at the patience limit
\* was built by that many consecutive iterations below the threshold, and the
\* loop is always left, within max-iterations iterations
C17_PatienceAndCap ==
    /\ [](InRelaxer =>
             /\ iteration <= RELAX_MAX_ITERATIONS
             /\ no_improve <= PATIENCE
             /\ no_improve <= iteration)
    /\ [][(InRelaxer /\ pc = "loop") =>
             /\ iteration' = iteration + 1 =>
                    /\ no_improve < PATIENCE
                    /\ iteration < RELAX_MAX_ITERATIONS
                    /\ no_improve' =
                           IF BelowThreshold(StageObjective(positions),
                                             StageObjective(positions'))
                           THEN no_improve + 1 ELSE 0
             /\ pc' # "loop" =>
                    /\ no_improve = PATIENCE \/ iteration = RELAX_MAX_ITERATIONS
                    /\ iteration' = iteration /\ no_improve' = no_improve]_vars
    /\ (InRelaxer => <>(pc # "loop"))

\* a patience stop before the cap, after iterations that did improve
C17_Witness ==
    /\ InRelaxer /\ pc # "loop"
    /\ no_improve = PATIENCE
    /\ PATIENCE < iteration /\ iteration < RELAX_MAX_ITERATIONS

\* C18: run_force_relaxation reports the number of iterations it ran, never
\* more than the cap, and converged is true iff the loop was left on the
\* patience limit: a run reported as not converged used up the cap with the
\* counter below the limit
C18_Report ==
    (InRelax /\ pc = "done") =>
        /\ 1 <= iteration /\ iteration <= RELAX_MAX_ITERATIONS
        /\ converged <=> no_improve = PATIENCE
        /\ converged => iteration >= PATIENCE
        /\ ~converged => iteration = RELAX_MAX_ITERATIONS /\ no_improve < PATIENCE

\* the patience limit reached in the very iteration that is the cap's last
C18_Witness ==
    /\ InRelax /\ pc = "done"
    /\ converged /\ iteration = RELAX_MAX_ITERATIONS

\* C18, second witness: a run that used up the cap while still improving
C18_WitnessCap ==
    /\ InRelax /\ pc = "done"
    /\ ~converged /\ no_improve = 0

\* the coordinate set the caller handed to the relaxer, as the caller sees it:
\* main's positions array is the array relax_layout updates, while
\* run_force_relaxation works on copies of the caller's initial_positions
CallerPositions == IF InRelaxLayout THEN positions ELSE initial_positions

\* C19 (as claimed): the stage-input coordinates are preserved by the force relaxer: in
\* every iteration the anchor reference is the coordinates the stage was
\* given, and on return the caller's stage-input coordinates are unchanged, so
\* the original coordinates reported next to the relaxed ones are the
\* pre-relaxation coordinates
C19_InputPreserved ==
    InRelaxer =>
        /\ original_positions = initial_positions
        /\ pc = "done" =>
               /\ CallerPositions = initial_positions
               /\ InRelaxLayout => reported_original = initial_positions

\* distance of a coordinate from the origin
Radius(p) == Root2(p[1], p[2])

\* C20: the spiral positions of two different slot indices differ, and
\* position 0 is strictly closer to the origin than the position of any
\* k > 0; the distance from the origin grows strictly with the index
C20_SpiralDistinct ==
    (InSpiral /\ pc = "done" /\ spiral_index >= 0) =>
        /\ spiral_index # spiral_other => spiral_position # spiral_other_position
        /\ (spiral_index = 0 /\ spiral_other > 0) =>
               Radius(spiral_position) < Radius(spiral_other_position)
        /\ spiral_index < spiral_other =>
               Radius(spiral_position) < Radius(spiral_other_position)

\* the centre slot next to the outermost one
C20_Witness ==
    /\ InSpiral /\ pc = "done"
    /\ spiral_index = 0 /\ spiral_other = MaxSlot
    /\ spiral_position # spiral_other_position
    /\ spiral_position # <<0, 0>>
\* C21 (as claimed): the spiral function ends in an error for every negative
\* slot index, returning no coordinate, and returns a coordinate without an
\* error for every non-negative one.
C21_NegativeRejected ==
    (InSpiral /\ pc # "input") =>
        /\ spiral_index < 0 => pc = "raised"
        /\ spiral_index >= 0 => pc = "done"

\* what the code does: only an index below -1 makes math.sqrt raise
C21_Observed ==
    (InSpiral /\ pc # "input") =>
        (pc = "raised") = (spiral_index < -1)

\* index -1 has returned the centre coordinate
C21_Witness ==
    /\ InSpiral /\ pc = "done"
    /\ spiral_index = -1 /\ spiral_position = <<0, 0>>

\* both budgets were left to the defaults and have been resolved
AdaptiveResolved ==
    /\ InBudget /\ pc = "done"
    /\ arg_max_iterations = NoArg /\ arg_no_improve_limit = NoArg

\* the budgets the code resolves for the largest edge count of the runs
CeilingCap == calculate_adaptive_iterations(MaxEdgeSteps * EdgeStep, MaxActors).iterations
CeilingLimit == DefaultNoImproveLimit(CeilingCap)

\* C22 (as claimed): for every edge count the adaptive cap lies between its
\* floor and its ceiling, and the default no-improvement limit is the same
\* fraction of the cap for all edge counts (up to the truncation to an
\* integer): limit / cap equals the ratio found at the ceiling.
C22_FixedFraction ==
    AdaptiveResolved =>
        /\ budget_max_iterations >= MIN_ITERATIONS
        /\ budget_max_iterations <= CAP_ITERATIONS
        /\ Abs(budget_no_improve_limit * CeilingCap
                  - budget_max_iterations * CeilingLimit) < CeilingCap

\* the part of C22 the code keeps: the cap stays within floor and ceiling
C22_CapBounded ==
    AdaptiveResolved =>
        /\ budget_max_iterations >= MIN_ITERATIONS
        /\ budget_max_iterations <= CAP_ITERATIONS

\* no edges: the cap is the floor and the limit is its own floor, a tenth
C22_WitnessFloor ==
    /\ AdaptiveResolved /\ num_edges = 0
    /\ budget_max_iterations = MIN_ITERATIONS
    /\ budget_no_improve_limit = MIN_NO_IMPROVE_LIMIT

\* the ceiling: the limit is a twentieth of the cap
C22_WitnessCeiling ==
    /\ AdaptiveResolved
    /\ budget_max_iterations = CAP_ITERATIONS
    /\ budget_no_improve_limit * 20 = CAP_ITERATIONS

\* C23 (as claimed): two executions of an optimizer on the same graph and the
\* same initial assignment draw the same sequence of candidate pairs, and
\* return the same assignment, coordinates, iteration count, accepted-swap
\* count and stop reason.
C23_Reproducible ==
    InRepro => run_a = run_b

\* the part of C23 the code keeps: the optimizer that seeds its generator
C23_SeededReproducible ==
    (InRepro /\ repro_program = "03-swap-optimization") => run_a = run_b

\* two seeded executions have returned after an accepted swap
C23_WitnessSeeded ==
    /\ InRepro /\ pc = "done" /\ repro_program = "03-swap-optimization"
    /\ run_a.swaps_accepted > 0 /\ run_a = run_b

\* two unseeded executions have returned different assignments
C23_WitnessUnseeded ==
    /\ InRepro /\ pc = "done" /\ repro_program = "optimize-layout"
    /\ run_a.current_perm # run_b.current_perm

\* the list is a bijection onto 0 .. n-1
ValidPermutation(perm, n) ==
    /\ Len(perm) = n
    /\ \A v \in 0 .. (n - 1) : Cardinality({k \in 1 .. Len(perm) : perm[k] = v}) = 1

\* C24 (as claimed): a supplied permutation that is not a bijection onto
\* 0 .. n-1 ends the program in an error before any layout is produced; it is
\* neither replaced by another assignment nor used as given.
C24_InvalidRejected ==
    (InLoader /\ pc # "input"
        /\ ~ValidPermutation(supplied_permutation, num_actors)) =>
        /\ pc = "raised"
        /\ layout_slots = <<>>

\* the part of C24 the code keeps: generate-optimized-layout.py rejects every
\* such list, and accepts every bijection as given
C24_GenerateRejects ==
    (InLoader /\ pc # "input" /\ loader_program = "generate-optimized-layout") =>
        IF ValidPermutation(supplied_permutation, num_actors)
        THEN pc = "done" /\ layout_slots = supplied_permutation
        ELSE pc = "raised" /\ layout_slots = <<>>

\* generate-optimized-layout.py has rejected a list of the right length with
\* a repeated slot
C24_WitnessGenerate ==
    /\ InLoader /\ pc = "raised" /\ loader_program = "generate-optimized-layout"
    /\ Len(supplied_permutation) = num_actors
    /\ Elements(supplied_permutation) \subseteq 0 .. (num_actors - 1)

\* relax-layout.py has replaced a list of the wrong length by the base order
C24_WitnessReplaced ==
    /\ InLoader /\ pc = "done" /\ loader_program = "relax-layout"
    /\ Len(supplied_permutation) # num_actors
    /\ layout_source = "base"

\* relax-layout.py has used a list with a repeated slot as given
C24_WitnessUsed ==
    /\ InLoader /\ pc = "done" /\ loader_program = "relax-layout"
    /\ layout_source = "permutation"
    /\ layout_slots = supplied_permutation
    /\ ~ValidPermutation(supplied_permutation, num_actors)

\* the nodes a walk of at most k edges from the source ends in
RECURSIVE WithinHops(_)
WithinHops(k) ==
    IF k = 0 THEN {source}
    ELSE LET near == WithinHops(k - 1)
         IN  near \cup {v \in DOMAIN adj :
                           \E u \in near : \E i \in 1 .. Len(adj[u]) : adj[u][i] = v}

Reachable == WithinHops(Cardinality(DOMAIN adj))

\* the least number of edges of a walk from the source to v
MinHops(v) == CHOOSE k \in 0 .. Cardinality(DOMAIN adj) :
                  /\ v \in WithinHops(k)
                  /\ \A j \in 0 .. (k - 1) : v \notin WithinHops(j)

\* C25: bfs_distances returns a distance for exactly the nodes reachable from
\* the source, each the least number of hops and 0 for the source alone; main
\* stores None for every other node, and reachable + unreachable + 1 is the
\* number of nodes.
C25_BfsDistances ==
    (InBfs /\ pc = "done") =>
        /\ DOMAIN dist = Reachable
        /\ \A v \in DOMAIN dist : dist[v] = MinHops(v)
        /\ \A v \in DOMAIN dist : (dist[v] = 0) = (v = source)
        /\ DOMAIN full_distances = DOMAIN adj \ {source}
        /\ \A v \in DOMAIN full_distances :
               IF v \in Reachable THEN full_distances[v] = MinHops(v)
               ELSE full_distances[v] = NoDistance
        /\ reachable = Cardinality(Reachable) - 1
        /\ unreachable = Cardinality(DOMAIN adj \ Reachable)
        /\ reachable + unreachable + 1 = Cardinality(DOMAIN adj)

\* a report with a node two hops away, one unreachable node and a self-loop
C25_Witness ==
    /\ InBfs /\ pc = "done"
    /\ \E v \in DOMAIN full_distances : full_distances[v] = 2
    /\ \E v \in DOMAIN full_distances : full_distances[v] = NoDistance
    /\ \E v \in DOMAIN adj : \E i \in 1 .. Len(adj[v]) : adj[v][i] = v
    /\ unreachable = 1

\* the centre of the star: the actor every edge has
StarCentre == CHOOSE c \in actor_ids : \A e \in edges : c \in {e[1], e[2]}

\* the total edge length of a star whose centre is on slot c and whose
\* leaves are on the other slots
StarTotalAt ==
    [c \in StarIds |->
        SumOver(StarIds \ {c},
                [k \in StarIds \ {c} |->
                    Dist(calculate_vogel_position(c, DEFAULT_SPACING),
                         calculate_vogel_position(k, DEFAULT_SPACING))])]

\* the total edge length of the layout 02-centrality-ordering.py produces
DegreeOrderingTotal == StarTotalAt[slot[StarCentre]]

\* C26: on the star with five leaves the degree ordering gives the centre
\* slot 0, and the swap optimizer started from any ordering stops by
\* stagnation with the centre at slot 0 and a total distance within the
\* optimizer's epsilon of the total of the degree ordering; until then its
\* total is never below that one.
C26_StarConverges ==
    InStar =>
        /\ slot[StarCentre] = 0
        /\ total_distance >= DegreeOrderingTotal
        /\ pc = "done" =>
               /\ stopped_reason = "stagnation"
               /\ ordinals[StarCentre] = 0
               /\ Abs(total_distance - DegreeOrderingTotal) <= SWAP_EPSILON
               /\ total_distance = TotalDistance(positions, edges)
               /\ positions = [a \in actor_ids |->
                      calculate_vogel_position(ordinals[a], DEFAULT_SPACING)]

\* a run that started with the centre on the outermost slot has returned
\* after accepting swaps
C26_Witness ==
    /\ InStar /\ pc = "done"
    /\ initial_ordinals[StarCentre] = 5
    /\ swaps_accepted > 1
    /\ ordinals[StarCentre] = 0

\* C27: in run_swap_optimization the stagnation counter is the number of
\* trials since the most recent accepted swap, or since the start: it starts
\* at 0, every accepted trial sets it to 0, every rejected one adds 1, and it
\* never exceeds the threshold nor the number of trials.  A run that returns
\* the stagnation reason has the counter at the threshold, so its last
\* STAGNATION_THRESHOLD trials were rejected one after the other.
C27_StagnationCounter ==
    /\ [](InSwap =>
            /\ stagnation_counter >= 0
            /\ stagnation_counter <= STAGNATION_THRESHOLD
            /\ stagnation_counter <= iteration
            /\ iteration = 0 => stagnation_counter = 0
            /\ swaps_accepted = 0 => stagnation_counter = iteration
            /\ (pc = "done" /\ stopped_reason = "stagnation") =>
                   /\ stagnation_counter = STAGNATION_THRESHOLD
                   /\ iteration >= STAGNATION_THRESHOLD)
    /\ [][ SwapTrialStep =>
              IF delta' < -SWAP_EPSILON
              THEN /\ swaps_accepted' = swaps_accepted + 1
                   /\ stagnation_counter' = 0
              ELSE /\ swaps_accepted' = swaps_accepted
                   /\ stagnation_counter' = stagnation_counter + 1 ]_vars

\* a run that accepted a swap and then stagnated
C27_Witness ==
    /\ InSwap /\ pc = "done" /\ stopped_reason = "stagnation"
    /\ swaps_accepted >= 1
    /\ stagnation_counter = STAGNATION_THRESHOLD
    /\ iteration > STAGNATION_THRESHOLD

\* C28: try_swap only evaluates: for every pair of distinct actors and every
\* placement, the positions mapping it leaves is the one it was given, the
\* tentative exchange being undone on every path; a trial it ends without an
\* acceptance changes neither coordinates nor slots, an accepted one changes
\* them by the one exchange of the caller, and the adjacency is never changed.
C28_TrySwapPure ==
    /\ [](InSwap =>
            /\ adjacency = build_adjacency(edges)
            /\ \A pos \in (IF iteration = 0 THEN Placements ELSE {positions}) :
                   \A a, b \in actor_ids :
                       a # b => try_swap(a, b, pos, adjacency).positions = pos)
    /\ [][ SwapTrialStep =>
              /\ adjacency' = adjacency
              /\ IF swaps_accepted' = swaps_accepted
                 THEN positions' = positions /\ ordinals' = ordinals
                 ELSE /\ positions' = Exchange(positions, actor_i', actor_j')
                      /\ ordinals' = Exchange(ordinals, actor_i', actor_j') ]_vars

\* a rejected trial on two connected actors whose exchange would have changed
\* the layout
C28_Witness ==
    /\ InSwap /\ iteration >= 1 /\ stagnation_counter >= 1
    /\ actor_i \in DOMAIN adjacency /\ actor_j \in adjacency[actor_i]
    /\ positions[actor_i] # positions[actor_j]
    /\ delta > 0
    /\ positions = initial_positions

\* the coordinate the input associates with slot k
SlotCoordinate(k) ==
    initial_positions[CHOOSE a \in actor_ids : initial_ordinals[a] = k]

\* how many actors are on coordinate p in the layout pos
Occupancy(pos, p) == Cardinality({a \in actor_ids : pos[a] = p})

\* C29: throughout run_swap_optimization every actor is on the coordinate
\* the input associated with the slot the actor now has, and the multiset of
\* occupied coordinates is that of the input.
C29_SlotsCoupled ==
    InSwap =>
        /\ \A a \in actor_ids : positions[a] = SlotCoordinate(ordinals[a])
        /\ \A a \in actor_ids :
               /\ Occupancy(positions, positions[a]) = Occupancy(initial_positions, positions[a])
               /\ Occupancy(positions, initial_positions[a])
                      = Occupancy(initial_positions, initial_positions[a])

\* after an accepted swap and a rejected trial two actors have exchanged
\* both slot and coordinate
C29_Witness ==
    /\ InSwap /\ swaps_accepted >= 1 /\ stagnation_counter >= 1
    /\ \E a, b \in actor_ids :
          /\ a # b
          /\ ordinals[a] = initial_ordinals[b] /\ ordinals[b] = initial_ordinals[a]
          /\ positions[a] = initial_positions[b] /\ positions[b] = initial_positions[a]
          /\ positions[a] # initial_positions[a]

\* the change of the total edge length of es when i and j exchange slots
FullDelta(geometry, perm, es, i, j) ==
    TotalDistance(PositionsOf(geometry, Exchange(perm, i, j)), es)
        - TotalDistance(PositionsOf(geometry, perm), es)

====
